---- MODULE Spec2Model ----
(***************************************************************************)
(* A model of the UE-CGRA analytical model: the dataflow Graph and the     *)
(* discrete-event token-flow Simulator (Graph.py, Node.py, Simulator.py,   *)
(* parameters.py, dfgs.py) and the search of PowerModel.py (group_nodes,   *)
(* the set_V_* methods, autosearch).                                       *)
(*                                                                         *)
(* Time.  The program keeps times as 64-bit floats; the model keeps them   *)
(* as integers in units of 1/10000 of the nominal period, so the three     *)
(* periods 1.00, 0.66 and 3.00 are 10000, 6600 and 30000 and the guard's   *)
(* slack of 0.001 is 10 units.  Sums of 1.00 and 3.00 are exact in floats. *)
(* Sums of 0.66 carry a rounding error below 1e-12, far below one unit,    *)
(* and differ from a sum of 1.00s and 3.00s by a multiple of 0.02 except   *)
(* where AdvanceTime says otherwise.  A token value False is 0.            *)
(***************************************************************************)
EXTENDS Integers, Sequences, FiniteSets, TLC

\* ------------------------------------------------------------------------
\* parameters.py: conf_dvfs
\* ------------------------------------------------------------------------

T_nominal == 10000

T_fast == 6600

T_slow == 30000

Modes == {"nominal", "fast", "slow"}

conf_dvfs_T(mode) ==
  CASE mode = "nominal" -> T_nominal
    [] mode = "fast"    -> T_fast
    [] mode = "slow"    -> T_slow

\* ------------------------------------------------------------------------
\* Bounds of the model
\* ------------------------------------------------------------------------

\* max_tokens of run(); calc_performance passes 50
MaxTokens == 4

\* max_time of run(), in nominal periods; the program's default is 100000.0
MaxTimeCycles == 12

\* calls of calc_performance on the simulator under study
MaxRuns == 3

\* calls of set_V_node over one behaviour
MaxSets == 1

\* edges of a graph built on its own
MaxEdges == 3

\* declared recurrence edges of a graph built on its own
MaxRecurrences == 1

\* max_time of the runs of the end-to-end scenarios, in nominal periods
ScenarioTimeCycles == 40

\* calls of set_V_range over one behaviour of the scenarios
ScenarioSets == 2

max_time == MaxTimeCycles * T_nominal

scenario_max_time == ScenarioTimeCycles * T_nominal

\* def run( s, run_id, max_tokens = 10, max_time = 100000.0 )
run_max_tokens == 10

\* ------------------------------------------------------------------------
\* Small helpers
\* ------------------------------------------------------------------------

Range(q) == { q[i] : i \in 1..Len(q) }

IndexOf(q, x) == CHOOSE i \in 1..Len(q) : q[i] = x

Reverse(q) == [ i \in 1..Len(q) |-> q[Len(q) + 1 - i] ]

\* every order in which a set can be iterated
Perms(S) ==
  { p \in [1..Cardinality(S) -> S] : \A i, j \in 1..Cardinality(S) : p[i] = p[j] => i = j }

EmptyMap == [ x \in {} |-> {} ]

MapRemove(f, k) == [ x \in (DOMAIN f) \ {k} |-> f[x] ]

MapPut(f, k, v) == [ x \in (DOMAIN f) \cup {k} |-> IF x = k THEN v ELSE f[x] ]

\* ------------------------------------------------------------------------
\* Graph.py
\* ------------------------------------------------------------------------

Graph ==
  [ nodes            |-> << >>,
    op               |-> [ x \in {} |-> "mul" ],
    srcs_adjlist     |-> EmptyMap,
    dsts_adjlist     |-> EmptyMap,
    recurrence_edges |-> << >> ]

add_node(G, name, op) ==
  [ G EXCEPT !.nodes = Append(@, name),
             !.op    = MapPut(@, name, op) ]

all_nodes(G) == Range(G.nodes)

get_srcs(G, node_name) ==
  IF node_name \in DOMAIN G.srcs_adjlist THEN G.srcs_adjlist[node_name] ELSE {}

get_dsts(G, node_name) ==
  IF node_name \in DOMAIN G.dsts_adjlist THEN G.dsts_adjlist[node_name] ELSE {}

get_liveins(G) == { n \in all_nodes(G) : n \notin DOMAIN G.srcs_adjlist }

get_liveouts(G) == { n \in all_nodes(G) : n \notin DOMAIN G.dsts_adjlist }

connect(G, src_name, dst_name, recurrence) ==
  [ G EXCEPT
      !.dsts_adjlist = MapPut(@, src_name, get_dsts(G, src_name) \cup {dst_name}),
      !.srcs_adjlist = MapPut(@, dst_name, get_srcs(G, dst_name) \cup {src_name}),
      !.recurrence_edges =
          IF recurrence THEN Append(@, <<src_name, dst_name>>) ELSE @ ]

\* a disconnect that forgets the second half (srcs_adjlist untouched)
disconnect_dsts_only(G, src_name, dst_name) ==
  LET dsts == G.dsts_adjlist
  IN  [ G EXCEPT
          !.dsts_adjlist =
              IF src_name \notin DOMAIN dsts THEN dsts
              ELSE IF dsts[src_name] \ {dst_name} = {}
                   THEN MapRemove(dsts, src_name)
                   ELSE [ dsts EXCEPT ![src_name] = @ \ {dst_name} ] ]

\* the recurrence argument of disconnect is not read: the entry of
\* recurrence_edges stays
disconnect(G, src_name, dst_name) ==
  LET dsts == G.dsts_adjlist
      srcs == G.srcs_adjlist
  IN  [ G EXCEPT
          !.dsts_adjlist =
              IF src_name \notin DOMAIN dsts THEN dsts
              ELSE IF dsts[src_name] \ {dst_name} = {}
                   THEN MapRemove(dsts, src_name)
                   ELSE [ dsts EXCEPT ![src_name] = @ \ {dst_name} ],
          !.srcs_adjlist =
              IF dst_name \notin DOMAIN srcs THEN srcs
              ELSE IF srcs[dst_name] \ {src_name} = {}
                   THEN MapRemove(srcs, dst_name)
                   ELSE [ srcs EXCEPT ![dst_name] = @ \ {src_name} ] ]

\* del s.nodes[ node_name ]: the adjacency lists stay as they are
delete_node(G, node_name) ==
  [ G EXCEPT
      !.nodes = SelectSeq(@, LAMBDA n : n # node_name),
      !.op    = MapRemove(@, node_name) ]

\* the edges of G, as (src, dst) pairs
Edges(G) == { e \in all_nodes(G) \X all_nodes(G) : e[2] \in get_dsts(G, e[1]) }

\* topological_sort.  The working adjlist maps a node to the list of its
\* remaining predecessors; a list is built from a set and sets are iterated
\* in an order the language does not fix, so a list is kept as a set and
\* "the last element" and "the first of list(nodes)" are any element.  The
\* result is the set of orders the function can return; the one-element
\* lists <<"KeyError">> and <<"ValueError">> stand for a call that raises
\* (in the loop: the lookup adjlist[any_node] of a key the pruning has just
\* deleted).

Prune(adjlist, order) ==
  LET pruned == [ k \in DOMAIN adjlist |-> adjlist[k] \ Range(order) ]
  IN  [ k \in { x \in DOMAIN pruned : pruned[x] # {} } |-> pruned[k] ]

BreakEdge(adjlist, any_node, src) ==
  IF adjlist[any_node] \ {src} = {}
  THEN MapRemove(adjlist, any_node)
  ELSE [ adjlist EXCEPT ![any_node] = @ \ {src} ]

RECURSIVE TopoLoop(_, _, _)
TopoLoop(nodes, adjlist, order) ==
  IF nodes = {} THEN { order }
  ELSE
    LET nodes_with_deps    == DOMAIN adjlist
        nodes_without_deps == nodes \ nodes_with_deps
    IN  UNION {
          LET order2 == order \o p
              adj2   == Prune(adjlist, order2)
          IN  IF nodes_without_deps # {}
              THEN TopoLoop(nodes_with_deps, adj2, order2)
              ELSE UNION {
                     IF any_node \notin DOMAIN adj2
                     THEN { <<"KeyError">> }
                     ELSE UNION { TopoLoop(nodes_with_deps,
                                           BreakEdge(adj2, any_node, src), order2)
                                  : src \in adj2[any_node] }
                     : any_node \in nodes_with_deps }
          : p \in Perms(nodes_without_deps) }

\* the removal of the recurrence edges one by one: adjlist[ dst_name ] of a
\* node with no predecessor is a KeyError, .index( src_name ) of a
\* predecessor that is not (or no longer) in the list is a ValueError
RECURSIVE RecurrenceError(_, _)
RecurrenceError(adjlist, edges) ==
  IF edges = << >> THEN ""
  ELSE LET src_name == Head(edges)[1]
           dst_name == Head(edges)[2]
       IN  IF dst_name \notin DOMAIN adjlist THEN "KeyError"
           ELSE IF src_name \notin adjlist[dst_name] THEN "ValueError"
           ELSE RecurrenceError([ adjlist EXCEPT ![dst_name] = @ \ {src_name} ],
                                Tail(edges))

RemoveRecurrence(G) ==
  [ k \in DOMAIN G.srcs_adjlist |->
      G.srcs_adjlist[k] \ { e[1] : e \in { r \in Range(G.recurrence_edges) : r[2] = k } } ]

topological_sort(G) ==
  IF RecurrenceError(G.srcs_adjlist, G.recurrence_edges) # ""
  THEN { << RecurrenceError(G.srcs_adjlist, G.recurrence_edges) >> }
  ELSE TopoLoop(all_nodes(G), RemoveRecurrence(G), << >>)

\* ------------------------------------------------------------------------
\* dfgs.py and the graphs of the end-to-end scenarios
\* ------------------------------------------------------------------------

RECURSIVE AddNodes(_, _)
AddNodes(G, names) ==
  IF names = << >> THEN G
  ELSE AddNodes(add_node(G, Head(names), "mul"), Tail(names))

RECURSIVE Connect(_, _, _)
Connect(G, edges, rec) ==
  IF edges = << >> THEN G
  ELSE Connect(connect(G, Head(edges)[1], Head(edges)[2], Head(edges) \in rec),
               Tail(edges), rec)

\* s -> a -> b -> t
Chain4 ==
  Connect(AddNodes(Graph, <<"s", "a", "b", "t">>),
          << <<"s", "a">>, <<"a", "b">>, <<"b", "t">> >>, {})

\* one node and no edge
Single1 == add_node(Graph, "a", "mul")

\* i -> p -> a -> o with p a phi node and the declared recurrence edge a -> p
Phi4 ==
  Connect(AddNodes(add_node(add_node(Graph, "i", "mul"), "p", "phi"), <<"a", "o">>),
          << <<"i", "p">>, <<"p", "a">>, <<"a", "p">>, <<"a", "o">> >>,
          { <<"a", "p">> })

\* i -> a -> p -> o with p a phi node and the declared recurrence edge p -> a
PhiBack4 ==
  Connect(add_node(add_node(AddNodes(Graph, <<"i", "a">>), "p", "phi"), "o", "mul"),
          << <<"i", "a">>, <<"a", "p">>, <<"p", "a">>, <<"p", "o">> >>,
          { <<"p", "a">> })

\* s -> a -> t
Chain3 ==
  Connect(AddNodes(Graph, <<"s", "a", "t">>),
          << <<"s", "a">>, <<"a", "t">> >>, {})

\* a loop a -> b -> a closed by the declared recurrence edge b -> a
Rec4 ==
  Connect(AddNodes(Graph, <<"i", "a", "b", "o">>),
          << <<"i", "a">>, <<"a", "b">>, <<"b", "a">>, <<"b", "o">> >>,
          { <<"b", "a">> })

\* the same loop with no declared recurrence edge
Cyc3 ==
  Connect(AddNodes(Graph, <<"i", "a", "b">>),
          << <<"i", "a">>, <<"a", "b">>, <<"b", "a">> >>, {})

\* two live-ins feeding one node
Join3 ==
  Connect(AddNodes(Graph, <<"q", "p", "c">>),
          << <<"q", "c">>, <<"p", "c">> >>, {})

ToyDfg3 ==
  LET G1 == AddNodes(Graph, <<"0", "1", "2", "3", "4", "5", "6">>)
      G2 == Connect(G1, << <<"0", "1">>, <<"0", "2">>, <<"1", "4">>, <<"2", "3">>,
                           <<"3", "4">>, <<"4", "5">>, <<"5", "6">>, <<"6", "0">> >>,
                    { <<"6", "0">> })
      G3 == connect(add_node(G2, "i_sram1", "mul"), "i_sram1", "0", FALSE)
  IN  connect(add_node(G3, "o_sram1", "mul"), "6", "o_sram1", FALSE)

\* ------------------------------------------------------------------------
\* PowerModel.py: group_nodes
\* ------------------------------------------------------------------------

is_singly_chained(G, node) ==
  Cardinality(get_srcs(G, node)) = 1 /\ Cardinality(get_dsts(G, node)) = 1

\* the forward (all_dsts) or backward (all_srcs) search from node: every
\* neighbour met is visited, a singly chained one joins the group and the
\* search goes on from it.  A search that comes back to node never ends
\* (the list grows until memory is exhausted): raised is "NoReturn".
RECURSIVE ChainSearch(_, _, _, _, _)
ChainSearch(G, forward, node, current_node, acc) ==
  LET next_node == CHOOSE n \in (IF forward THEN get_dsts(G, current_node)
                                            ELSE get_srcs(G, current_node)) : TRUE
      visited   == acc.visited \cup {next_node}
  IN  IF next_node \notin all_nodes(G)
      THEN [ acc EXCEPT !.raised = "KeyError" ]
      ELSE IF ~ is_singly_chained(G, next_node)
      THEN [ acc EXCEPT !.visited = visited ]
      ELSE IF next_node = node
      THEN [ acc EXCEPT !.raised = "NoReturn" ]
      ELSE ChainSearch(G, forward, node, next_node,
                       [ acc EXCEPT !.visited = visited,
                                    !.group   = Append(@, next_node) ])

\* the loop over all_nodes(): the groups of the singly chained nodes, in the
\* order of their first node in the graph
RECURSIVE GroupLoop(_, _, _, _)
GroupLoop(G, i, groups, visited) ==
  IF i > Len(G.nodes) THEN [ raised |-> "", groups |-> groups, visited |-> visited ]
  ELSE LET node_name == G.nodes[i]
       IN  IF node_name \in visited THEN GroupLoop(G, i + 1, groups, visited)
           ELSE IF ~ is_singly_chained(G, node_name)
           THEN GroupLoop(G, i + 1, groups, visited \cup {node_name})
           ELSE LET start == [ raised  |-> "",
                               group   |-> << node_name >>,
                               visited |-> visited \cup {node_name} ]
                    fwd   == ChainSearch(G, TRUE, node_name, node_name, start)
                    bwd   == IF fwd.raised # "" THEN fwd
                             ELSE ChainSearch(G, FALSE, node_name, node_name, fwd)
                IN  IF bwd.raised # ""
                    THEN [ raised |-> bwd.raised, groups |-> << >>, visited |-> {} ]
                    ELSE GroupLoop(G, i + 1, Append(groups, bwd.group), bwd.visited)

RECURSIVE SumLen(_)
SumLen(groups) == IF groups = << >> THEN 0 ELSE Len(Head(groups)) + SumLen(Tail(groups))

\* group_nodes: groups[count] is the list of node names of group count.
\* The nodes left over are numbered in the order in which the set
\* other_nodes is iterated, which the language does not fix: the result is
\* the set of the records the call can end with; raised names the exception
\* of a call that does not return groups ("TypeError": reduce() of an empty
\* sequence).
group_nodes(G) ==
  LET chained == GroupLoop(G, 1, << >>, {})
  IN  IF chained.raised # ""
      THEN { [ raised |-> chained.raised, groups |-> << >> ] }
      ELSE IF chained.groups = << >>
      THEN { [ raised |-> "TypeError", groups |-> << >> ] }
      ELSE LET all_grouped == UNION { Range(chained.groups[k]) : k \in DOMAIN chained.groups }
               other_nodes == chained.visited \ all_grouped
           IN  { LET groups == chained.groups \o [ k \in 1..Len(p) |-> << p[k] >> ]
                 IN  IF Len(G.nodes) = SumLen(groups)
                     THEN [ raised |-> "", groups |-> groups ]
                     ELSE [ raised |-> "AssertionError", groups |-> << >> ]
                 : p \in Perms(other_nodes) }

\* ------------------------------------------------------------------------
\* State
\* ------------------------------------------------------------------------

VARIABLES
  g,      \* the Graph the simulators were built over
  T,      \* Node.T of every node of g
  sims,   \* the Simulator instances: sims[1] is under study, sims[2] is a
          \* second instance over the same graph
  sets,   \* calls of set_V_node so far
  ret,    \* the graph topological_sort was last called on and what it
          \* returned
  pm      \* the PowerModel: Node.V of every node, the groups of
          \* group_nodes and the position and locals of autosearch

vars == << g, T, sims, sets, ret, pm >>

\* ------------------------------------------------------------------------
\* Simulator.py: Token
\* ------------------------------------------------------------------------
\* A token record carries, beside the four fields of the class, two history
\* fields no operation reads: by (who set it: "fire_push", fire called from
\* push; "fire_tick", fire called from tick; "live_in"; "reset") and born
\* (the number of shadow-to-real copies done when it was set).

guard_slack == 10

Token ==
  [ value |-> 0, guard_begin |-> 0, guard_span |-> 0, guard_set |-> FALSE,
    by |-> "init", born |-> 0 ]

token_set(tok, v) == [ tok EXCEPT !.value = v ]

guarded_set(tok, v, time, span, by, born) ==
  [ value |-> v, guard_begin |-> time, guard_span |-> span, guard_set |-> TRUE,
    by |-> by, born |-> born ]

guarded_read(tok, time) ==
  IF tok.guard_set /\ (time - tok.guard_begin) - tok.guard_span > - guard_slack
  THEN tok.value
  ELSE 0

deassert_guard(tok) == [ tok EXCEPT !.guard_set = FALSE ]

\* ------------------------------------------------------------------------
\* Simulator.py: deque( maxlen=2 ); index 1 is the left end
\* ------------------------------------------------------------------------

\* a deque one entry longer
maxlen_three == 2 + 1

maxlen == 2

appendleft(q, v) ==
  IF Len(q) >= maxlen THEN SubSeq(<<v>> \o q, 1, maxlen) ELSE <<v>> \o q

append(q, v) ==
  IF Len(q) >= maxlen THEN SubSeq(q \o <<v>>, 2, maxlen + 1) ELSE q \o <<v>>

pop(q) == SubSeq(q, 1, Len(q) - 1)

\* q[-1] if q else False
peek(q) == IF q = << >> THEN 0 ELSE q[Len(q)]

\* ------------------------------------------------------------------------
\* Simulator.py: SimNode
\* ------------------------------------------------------------------------

SimNode(G, name) ==
  [ token_counter  |-> 1,
    queues         |-> [ src \in get_srcs(G, name) |-> << >> ],
    shadow_queues  |-> [ src \in get_srcs(G, name) |-> << >> ],
    pipewait       |-> FALSE,
    live_out_token |-> Token,
    time           |-> 0 ]

\* SimNode.pipeline is set to False at construction and never changed
pipeline == FALSE

\* setup: the live_in and live_out flags
live_in(G, name) == get_srcs(G, name) = {} /\ get_dsts(G, name) # {}

live_out(G, name) == get_srcs(G, name) # {} /\ get_dsts(G, name) = {}

SimNode_reset(node) ==
  [ node EXCEPT !.token_counter = 1,
                !.time          = 0,
                !.queues        = [ k \in DOMAIN @ |-> << >> ],
                !.shadow_queues = [ k \in DOMAIN @ |-> << >> ],
                !.pipewait      = FALSE ]

\* no backpressure: ready whatever the queue holds
ready_always(s, name, src) == TRUE

\* ready looking at the length of the queue only
ready_full_only(s, name, src) == Len(s.sim_nodes[name].queues[src]) # maxlen

ready(s, name, src) ==
  LET node == s.sim_nodes[name]
  IN  IF Len(node.queues[src]) = maxlen THEN FALSE
      ELSE IF ~ pipeline /\ Len(node.queues[src]) = maxlen - 1 /\ node.pipewait
           THEN FALSE
           ELSE TRUE

\* the tokens on the outgoing shadow wires of node name that are set: a
\* token is set to False on both wires when it is pushed into the queue of
\* the consumer
Undelivered(s, name) ==
  { [ dst |-> e[2], by |-> s.shadow_fanout[e].by, value |-> s.shadow_fanout[e].value ] :
      e \in { d \in DOMAIN s.shadow_fanout : d[1] = name /\ s.shadow_fanout[d].value # 0 } }

\* fire writing the real wires as well as the shadow wires
fire_unbuffered(s, name, time, token_value, by) ==
  [ s EXCEPT
      !.shadow_fanout =
          [ e \in DOMAIN @ |->
              IF e[1] = name
              THEN guarded_set(@[e], token_value, time, T[name], by, s.copies)
              ELSE @[e] ],
      !.wires_fanout =
          [ e \in DOMAIN @ |->
              IF e[1] = name
              THEN guarded_set(@[e], token_value, time, 0, by, s.copies)
              ELSE @[e] ],
      !.sim_nodes[name].live_out_token =
          IF live_out(g, name)
          THEN guarded_set(@, token_value, time, T[name], by, s.copies)
          ELSE @,
      !.lead = [ e \in DOMAIN @ |-> IF e[1] = name THEN @[e] + 1 ELSE @[e] ],
      !.fires = @ \cup { [ node |-> name, time |-> time, value |-> token_value,
                            T |-> T[name], at |-> s.global_time, by |-> by,
                            lost |-> Undelivered(s, name) ] } ]

\* fire of node name: every outgoing shadow token, and the live_out_token of
\* a live-out node
fire(s, name, time, token_value, by) ==
  [ s EXCEPT
      !.shadow_fanout =
          [ e \in DOMAIN @ |->
              IF e[1] = name
              THEN guarded_set(@[e], token_value, time, T[name], by, s.copies)
              ELSE @[e] ],
      !.sim_nodes[name].live_out_token =
          IF live_out(g, name)
          THEN guarded_set(@, token_value, time, T[name], by, s.copies)
          ELSE @,
      !.lead = [ e \in DOMAIN @ |-> IF e[1] = name THEN @[e] + 1 ELSE @[e] ],
      !.fires = @ \cup { [ node |-> name, time |-> time, value |-> token_value,
                            T |-> T[name], at |-> s.global_time, by |-> by,
                            lost |-> Undelivered(s, name) ] } ]

\* Op applied to the value of v
Then(v, Op(_)) == CHOOSE r \in { Op(x) : x \in {v} } : TRUE

SetMax(S) == CHOOSE x \in S : \A y \in S : y <= x

\* push firing whenever every shadow queue has a token, buffered or not
push_buffered_fires(s, name, time, src, token_value) ==
  Then([ s EXCEPT !.sim_nodes[name].shadow_queues[src] =
                     appendleft(@, token_value) ],
       LAMBDA s1 :
         LET sq == s1.sim_nodes[name].shadow_queues
             peek_values == { peek(sq[k]) : k \in DOMAIN sq }
         IN  IF 0 \in peek_values THEN s1
             ELSE fire(s1, name, time, SetMax(peek_values), "fire_push"))

push(s, name, time, src, token_value) ==
  Then([ s EXCEPT !.sim_nodes[name].shadow_queues[src] =
                     appendleft(@, token_value) ],
       LAMBDA s1 :
         LET sq == s1.sim_nodes[name].shadow_queues
             peek_values == { peek(sq[k]) : k \in DOMAIN sq }
         IN  IF 0 \in peek_values THEN s1
             ELSE IF Len(sq[src]) = 1
                  THEN fire(s1, name, time, SetMax(peek_values), "fire_push")
                  ELSE s1)

\* one turn of the loop over wires_fanout in tick
DrainOne(s, name, dst) ==
  LET time        == s.sim_nodes[name].time
      token       == s.wires_fanout[<<name, dst>>]
      token_value == guarded_read(token, time)
  IN  IF token_value = 0 THEN s
      ELSE IF ~ ready(s, dst, name) THEN s
      ELSE
        Then(push(s, dst, time, name, token_value),
             LAMBDA s1 :
               [ s1 EXCEPT
                   !.wires_fanout[<<name, dst>>]  = deassert_guard(token_set(@, 0)),
                   !.shadow_fanout[<<name, dst>>] = deassert_guard(token_set(@, 0)),
                   !.sim_nodes[name].pipewait = TRUE,
                   !.pushes = @ \cup { [ src |-> name, dst |-> dst, token |-> token,
                                         at |-> s.global_time, copies |-> s.copies ] } ])

\* The turns touch different wires and different downstream nodes, so their
\* order (the iteration order of a dict built from a set) does not matter.
RECURSIVE Drain(_, _, _)
Drain(s, name, dsts) ==
  IF dsts = {} THEN s
  ELSE LET dst == CHOOSE d \in dsts : TRUE
       IN  Then(DrainOne(s, name, dst), LAMBDA s1 : Drain(s1, name, dsts \ {dst}))

PeekAll(s, name) ==
  LET q == s.sim_nodes[name].queues IN { peek(q[k]) : k \in DOMAIN q }

AllSet(peek_values) == peek_values # {} /\ 0 \notin peek_values

\* the input dequeue of a node that is not a live-out; IndexError is the pop
\* of an empty shadow deque
Dequeue(s, name) ==
  LET node         == s.sim_nodes[name]
      fanout_empty == \A e \in DOMAIN s.wires_fanout :
                         e[1] = name => s.wires_fanout[e].value = 0
  IN  IF ~ (AllSet(PeekAll(s, name)) /\ fanout_empty) THEN s
      ELSE IF \E k \in DOMAIN node.shadow_queues : node.shadow_queues[k] = << >>
      THEN [ s EXCEPT !.exc = "IndexError" ]
      ELSE
        Then([ s EXCEPT
                 !.sim_nodes[name].queues = [ k \in DOMAIN @ |-> pop(@[k]) ],
                 !.sim_nodes[name].shadow_queues =
                     [ k \in DOMAIN @ |-> pop(@[k]) ] ],
             LAMBDA s1 :
               IF AllSet(PeekAll(s1, name))
               THEN fire(s1, name, node.time, SetMax(PeekAll(s1, name)), "fire_tick")
               ELSE s1)

\* the sink of a live-out node
Sink(s, name) ==
  LET node == s.sim_nodes[name]
  IN  IF guarded_read(node.live_out_token, node.time) = 0 THEN s
      ELSE
        Then([ s EXCEPT
                 !.sunk = Append(@, [ node |-> name, value |-> node.live_out_token.value ]),
                 !.sim_nodes[name].live_out_token =
                     deassert_guard(token_set(@, 0)),
                 !.sim_nodes[name].queues =
                     [ k \in DOMAIN @ |-> IF @[k] # << >> THEN pop(@[k]) ELSE @[k] ],
                 !.sim_nodes[name].shadow_queues =
                     [ k \in DOMAIN @ |-> IF @[k] # << >> THEN pop(@[k]) ELSE @[k] ],
                 !.sim_nodes[name].pipewait = TRUE ],
             LAMBDA s1 :
               IF AllSet(PeekAll(s1, name))
               THEN fire(s1, name, node.time, SetMax(PeekAll(s1, name)), "fire_tick")
               ELSE s1)

\* a live-in node that sends its next token at every tick
Produce_every_tick(s, name) ==
  LET node == s.sim_nodes[name]
  IN  [ s EXCEPT
          !.shadow_fanout =
              [ e \in DOMAIN @ |->
                  IF e[1] = name
                  THEN guarded_set(@[e], node.token_counter, node.time,
                                   T[name], "live_in", s.copies)
                  ELSE @[e] ],
          !.sim_nodes[name].token_counter = @ + 1,
          !.emits = Append(@, [ node |-> name, at |-> s.global_time ]) ]

\* the next token of a live-in node
Produce(s, name) ==
  LET node == s.sim_nodes[name]
      produce_not_done == \E e \in DOMAIN s.shadow_fanout :
                             e[1] = name /\ s.shadow_fanout[e].value # 0
  IN  IF produce_not_done THEN s
      ELSE [ s EXCEPT
               !.shadow_fanout =
                   [ e \in DOMAIN @ |->
                       IF e[1] = name
                       THEN guarded_set(@[e], node.token_counter, node.time,
                                        T[name], "live_in", s.copies)
                       ELSE @[e] ],
               !.sim_nodes[name].token_counter = @ + 1,
               !.emits = Append(@, [ node |-> name, at |-> s.global_time ]) ]

tick(s, name) ==
  Then([ s EXCEPT !.pushes = {}, !.fires = {} ], LAMBDA s0 :
  Then(Drain(s0, name, get_dsts(g, name)), LAMBDA s1 :
  Then(IF ~ live_out(g, name) THEN Dequeue(s1, name) ELSE s1, LAMBDA s2 :
  Then(IF s2.exc # "" THEN s2
       ELSE IF live_out(g, name) THEN Sink(s2, name) ELSE s2, LAMBDA s3 :
    IF s3.exc # "" THEN s3
    ELSE IF live_in(g, name) THEN Produce(s3, name) ELSE s3))))

\* ------------------------------------------------------------------------
\* Simulator.py: PriorityQueue
\* ------------------------------------------------------------------------
\* The container is kept sorted, largest (time, rank in order) first; pop
\* takes the last entry.  An entry is a pair (time, name).

KeyGreater(order, a, b) ==
  \/ a[1] > b[1]
  \/ a[1] = b[1] /\ IndexOf(order, a[2]) > IndexOf(order, b[2])

PriorityQueue_add(container, order, time, name) ==
  LET ev == <<time, name>>
      k  == Cardinality({ i \in 1..Len(container) :
                            KeyGreater(order, container[i], ev) \/ container[i] = ev })
  IN  SubSeq(container, 1, k) \o <<ev>> \o SubSeq(container, k + 1, Len(container))

\* ------------------------------------------------------------------------
\* Simulator.py: Simulator
\* ------------------------------------------------------------------------
\* A Simulator record holds the fields of the object, the locals of run()
\* (pc, name, token_count, live_in_node, timed_out, exc), the value
\* calc_performance returned last (result; throughput is the pair of its
\* numerator and denominator) and the history fields, which no operation
\* reads: topo (what topological_sort returned), copies (shadow-to-real
\* copies so far), copied (the last pop copied), ticked (the nodes ticked
\* since the last copy), pushes and fires (of the last tick), last_T (the
\* periods at the last calc_performance), prev_T and prev_result (the same
\* for the call before), emits (the live-in tokens sent in this run), sunk
\* (the values the live-out nodes have sunk in this run, in order).

NoResult == [ token_count |-> 0, global_time |-> 0 ]

\* the order of topological_sort() without the [::-1]
TickOrder_forward(topo) == topo

\* tick in reverse topological order
TickOrder(topo) == Reverse(topo)

\* reset without the recurrence tokens
Simulator_reset_noseed(s) ==
  LET seed(tok, e) ==
        IF g.op[e[1]] = "phi"
        THEN guarded_set(token_set(tok, 0), 1, 0, T[e[1]], "reset", s.copies)
        ELSE token_set(tok, 0)
  IN  [ s EXCEPT
          !.global_time   = 0,
          !.sim_nodes     = [ n \in DOMAIN @ |-> SimNode_reset(@[n]) ],
          !.wires_fanout  = [ e \in DOMAIN @ |-> seed(@[e], e) ],
          !.shadow_fanout = [ e \in DOMAIN @ |-> seed(@[e], e) ],
          !.lead          = [ e \in DOMAIN @ |-> 0 ] ]

Simulator_reset(s) ==
  LET rec == Range(g.recurrence_edges)
      seed(tok, e) ==
        LET t1 == token_set(tok, 0)
            t2 == IF e \in rec
                  THEN guarded_set(t1, 1, 0, 0, "reset", s.copies) ELSE t1
        IN  IF g.op[e[1]] = "phi"
            THEN guarded_set(t2, 1, 0, T[e[1]], "reset", s.copies) ELSE t2
  IN  [ s EXCEPT
          !.global_time   = 0,
          !.sim_nodes     = [ n \in DOMAIN @ |-> SimNode_reset(@[n]) ],
          !.wires_fanout  = [ e \in DOMAIN @ |-> seed(@[e], e) ],
          !.shadow_fanout = [ e \in DOMAIN @ |-> seed(@[e], e) ],
          !.lead          = [ e \in DOMAIN @ |-> 0 ] ]

Simulator(G, topo) ==
  Simulator_reset(
    [ sim_nodes     |-> [ n \in all_nodes(G) |-> SimNode(G, n) ],
      wires_fanout  |-> [ e \in Edges(G) |-> Token ],
      shadow_fanout |-> [ e \in Edges(G) |-> Token ],
      lead          |-> [ e \in Edges(G) |-> 0 ],
      order         |-> TickOrder(topo),
      topo          |-> topo,
      last_T        |-> << >>,
      prev_T        |-> << >>,
      prev_result   |-> NoResult,
      container     |-> << >>,
      global_time   |-> 0,
      run_counter   |-> 0,
      pc            |-> "idle",
      name          |-> "",
      live_in_node  |-> "",
      max_tokens    |-> 0,
      max_time      |-> 0,
      token_count   |-> 0,
      timed_out     |-> FALSE,
      exc           |-> "",
      result        |-> NoResult,
      copies        |-> 0,
      copied        |-> FALSE,
      ticked        |-> << >>,
      pushes        |-> {},
      fires         |-> {},
      emits         |-> << >>,
      sunk          |-> << >> ])

\* run(): put every node at its time into the priority queue and pick the
\* live-in whose token counter the loop tracks
RECURSIVE AddAll(_, _, _)
AddAll(s, names, container) ==
  IF names = << >> THEN container
  ELSE AddAll(s, Tail(names),
              PriorityQueue_add(container, s.order, s.sim_nodes[Head(names)].time,
                                Head(names)))

LiveIns(G) == { i \in 1..Len(G.nodes) : live_in(G, G.nodes[i]) }

\* [ n for n in s.sim_nodes.values() if n.live_in ][0]
FirstLiveIn(G) == G.nodes[CHOOSE i \in LiveIns(G) : \A j \in LiveIns(G) : i <= j]

run_begin(s, max_tokens, max_t) ==
  IF LiveIns(g) = {}
  THEN [ s EXCEPT !.container = AddAll(s, g.nodes, @), !.exc = "IndexError",
                  !.max_tokens = max_tokens, !.max_time = max_t,
                  !.pc = "raised" ]
  ELSE [ s EXCEPT !.container    = AddAll(s, g.nodes, @),
                  !.max_tokens   = max_tokens,
                  !.max_time     = max_t,
                  !.live_in_node = FirstLiveIn(g),
                  !.token_count  = s.sim_nodes[FirstLiveIn(g)].token_counter,
                  !.timed_out    = FALSE,
                  !.pushes = {}, !.fires = {}, !.ticked = << >>, !.copied = FALSE,
                  !.emits = << >>, !.sunk = << >>,
                  !.last_T = T, !.prev_T = s.last_T, !.prev_result = s.result,
                  !.pc           = "while" ]

\* copy the shadow wires to the real wires, the shadow queues to the real
\* queues, clear the pipe waits, update the time
RECURSIVE Refill(_, _)
Refill(real, q) ==
  IF q = << >> THEN real ELSE Refill(append(real, Head(q)), Tail(q))

\* a copy that leaves the armed flag of the real token as it was
CopyToken_noguard(real, shadow) ==
  [ real EXCEPT !.value       = shadow.value,
                !.guard_begin = shadow.guard_begin,
                !.guard_span  = shadow.guard_span,
                !.by          = shadow.by,
                !.born        = shadow.born ]

CopyToken(real, shadow) ==
  [ real EXCEPT !.value       = shadow.value,
                !.guard_begin = shadow.guard_begin,
                !.guard_span  = shadow.guard_span,
                !.guard_set   = shadow.guard_set,
                !.by          = shadow.by,
                !.born        = shadow.born ]

CopyShadow(s, time) ==
  [ s EXCEPT
      !.wires_fanout = [ e \in DOMAIN @ |-> CopyToken(@[e], s.shadow_fanout[e]) ],
      !.sim_nodes    =
          [ n \in DOMAIN @ |->
              [ @[n] EXCEPT
                  !.queues   = [ k \in DOMAIN @ |-> Refill(<< >>, s.sim_nodes[n].shadow_queues[k]) ],
                  !.pipewait = FALSE ] ],
      !.lead         = [ e \in DOMAIN @ |-> 0 ],
      !.global_time  = time,
      !.copies       = @ + 1,
      !.copied       = TRUE,
      !.ticked       = << >> ]

\* the copy also when the popped time equals the global time
TimePassed_or_equal(time, global_time) == time >= global_time

TimePassed(time, global_time) == time > global_time

\* the report of the time-out without the break
TimeOut_continue(s) == [ s EXCEPT !.timed_out = TRUE ]

\* lines 512-514: report the time-out and leave the loop
TimeOut(s) == [ s EXCEPT !.timed_out = TRUE, !.pc = "return" ]

\* the loop test, the time-out test, the pop and the copy of one turn of
\* the loop of run()
run_pop(s) ==
  IF s.container = << >> \/ ~ (s.token_count <= s.max_tokens)
  THEN [ s EXCEPT !.pc = "return" ]
  ELSE IF s.global_time > s.max_time
  THEN TimeOut(s)
  ELSE
    LET ev   == s.container[Len(s.container)]
        time == ev[1]
        s1   == [ s EXCEPT !.container = SubSeq(@, 1, Len(@) - 1),
                           !.name      = ev[2],
                           !.copied    = FALSE,
                           !.pc        = "tick" ]
    IN  IF TimePassed(time, s.global_time) THEN CopyShadow(s1, time) ELSE s1

\* sim_node.time = sim_node.node.T: an assignment for the +=
AdvanceTime_assign(time, period) == period

\* sim_node.time += sim_node.node.T, then the tweak for a 0.66 period.  In
\* floats the sum of 0.66s from 0.0 prints as a number ending in ".98" at
\* 1.98 only (the next candidate is 3.9800000000000004), so the rounding
\* happens at 1.98 only; and the sum that would be 35.0 is
\* 34.99999999999999, below the 35.0 of a node with period 1.0 or 3.0.
AdvanceTime(time, period) ==
  LET t == time + period
  IN  IF period = T_fast /\ t = 19800 THEN 20000
      ELSE IF period = T_fast /\ t = 350000 THEN 349999
      ELSE t

\* the loop without its last line: token_count is never read again
TrackedCount_stale(s) == s.token_count

\* line 557: token_count = live_in_node.token_counter
TrackedCount(s) == s.sim_nodes[s.live_in_node].token_counter

\* the tick of the popped node and the rest of the turn
run_tick(s) ==
  Then(tick(s, s.name), LAMBDA s1 :
    IF s1.exc # "" THEN [ s1 EXCEPT !.pc = "raised" ]
    ELSE
      Then(AdvanceTime(s1.sim_nodes[s.name].time, T[s.name]), LAMBDA t2 :
      Then([ s1 EXCEPT
               !.sim_nodes[s.name].time = t2,
               !.container = PriorityQueue_add(@, s.order, t2, s.name),
               !.ticked    = Append(@, s.name) ], LAMBDA s2 :
        [ s2 EXCEPT !.token_count = TrackedCount(s2), !.pc = "while" ])))

\* the end of calc_performance
run_return(s) ==
  [ s EXCEPT !.run_counter = @ + 1,
             !.result = [ token_count |-> s.sim_nodes[s.live_in_node].token_counter,
                          global_time |-> s.global_time ],
             !.pc = "idle" ]

\* ------------------------------------------------------------------------
\* Actions
\* ------------------------------------------------------------------------

\* topological_sort has not been called
NoCall == [ called |-> FALSE, graph |-> Graph, value |-> << >> ]

\* no PowerModel has been built
NoPowerModel == [ pc |-> "none" ]

Idle == sims[1].pc = "idle" /\ sims[2].pc = "idle"

\* the nodes whose mode a behaviour changes
Settable(G) == IF Len(G.nodes) > 4 THEN {} ELSE all_nodes(G)

\* PowerModel.set_V_node( node_name, V ): V and T = T(V)
set_V_node(node_name, mode) ==
  /\ Idle
  /\ sets < MaxSets
  /\ sims[2].run_counter = 0
  /\ node_name \in Settable(g)
  /\ T[node_name] # conf_dvfs_T(mode)
  /\ T' = [ T EXCEPT ![node_name] = conf_dvfs_T(mode) ]
  /\ sets' = sets + 1
  /\ UNCHANGED << g, sims, ret, pm >>

\* calc_performance up to the loop of run(): reset, then the start of run
calc_performance(i) ==
  /\ Idle
  /\ sims[2].run_counter = 0
  /\ IF i = 1 THEN sims[1].run_counter < MaxRuns ELSE sims[1].run_counter >= 1
  /\ sims' = [ sims EXCEPT ![i] = run_begin(Simulator_reset(@), MaxTokens, max_time) ]
  /\ UNCHANGED << g, T, sets, ret, pm >>

Pop(i) ==
  /\ sims[i].pc = "while"
  /\ sims' = [ sims EXCEPT ![i] = run_pop(@) ]
  /\ UNCHANGED << g, T, sets, ret, pm >>

\* a tick that puts the ticked node back to the nominal period
Tick_writes_T(i) ==
  /\ sims[i].pc = "tick"
  /\ sims' = [ sims EXCEPT ![i] = run_tick(@) ]
  /\ T' = [ T EXCEPT ![sims[i].name] = T_nominal ]
  /\ UNCHANGED << g, sets, ret, pm >>

Tick(i) ==
  /\ sims[i].pc = "tick"
  /\ sims' = [ sims EXCEPT ![i] = run_tick(@) ]
  /\ UNCHANGED << g, T, sets, ret, pm >>

Return(i) ==
  /\ sims[i].pc = "return"
  /\ sims' = [ sims EXCEPT ![i] = run_return(@) ]
  /\ UNCHANGED << g, T, sets, ret, pm >>

Graphs == { Chain3, Rec4, Cyc3, Join3, ToyDfg3 }

Instances == {1, 2}

\* two simulators built over one graph whose nodes are at the default
\* period T_N = 1.0
Init ==
  /\ g \in Graphs
  /\ T = [ n \in all_nodes(g) |-> T_nominal ]
  /\ \E topo \in topological_sort(g) :
       sims = [ i \in Instances |-> Simulator(g, topo) ]
  /\ sets = 0
  /\ ret = NoCall
  /\ pm = NoPowerModel

Next ==
  \/ \E n \in all_nodes(g), mode \in Modes : set_V_node(n, mode)
  \/ \E i \in Instances : calc_performance(i)
  \/ \E i \in Instances : Pop(i)
  \/ \E i \in Instances : Tick(i)
  \/ \E i \in Instances : Return(i)

Spec == Init /\ [][Next]_vars

\* the loop of run() is never left half-way
FairSpec == Spec /\ WF_vars(\E i \in Instances : Pop(i) \/ Tick(i) \/ Return(i))

TypeOK ==
  /\ sets \in Nat
  /\ \A i \in Instances \cap DOMAIN sims :
       sims[i].pc \in {"idle", "while", "tick", "return", "raised"}

\* ------------------------------------------------------------------------
\* The Graph on its own: any sequence of add_node, connect, disconnect and
\* delete_node over three names, then a call of topological_sort
\* ------------------------------------------------------------------------

Names == {"a", "b", "c"}

EdgeCount(G) ==
  Cardinality({ e \in Names \X Names : e[2] \in get_dsts(G, e[1]) })

AddNode(name) ==
  /\ ~ ret.called
  /\ name \notin all_nodes(g)
  /\ g' = add_node(g, name, "mul")
  /\ T' = MapPut(T, name, T_nominal)
  /\ UNCHANGED << sims, sets, ret, pm >>

ConnectNodes(src_name, dst_name, recurrence) ==
  /\ ~ ret.called
  /\ EdgeCount(connect(g, src_name, dst_name, FALSE)) <= MaxEdges
  /\ recurrence => Len(g.recurrence_edges) < MaxRecurrences
  /\ g' = connect(g, src_name, dst_name, recurrence)
  /\ UNCHANGED << T, sims, sets, ret, pm >>

DisconnectNodes(src_name, dst_name) ==
  /\ ~ ret.called
  /\ g' = disconnect(g, src_name, dst_name)
  /\ UNCHANGED << T, sims, sets, ret, pm >>

DeleteNode(name) ==
  /\ ~ ret.called
  /\ name \in all_nodes(g)
  /\ g' = delete_node(g, name)
  /\ T' = MapRemove(T, name)
  /\ UNCHANGED << sims, sets, ret, pm >>

TopologicalSort ==
  /\ ~ ret.called
  /\ \E value \in topological_sort(g) :
       ret' = [ called |-> TRUE, graph |-> g, value |-> value ]
  /\ UNCHANGED << g, T, sims, sets, pm >>

\* a call that raised
Raised(value) == value \in { <<"KeyError">>, <<"ValueError">> }

\* every edge joins two nodes of G, every declared recurrence edge is an
\* edge of G and is declared once
WellFormed(G) ==
  /\ \A x \in Names : get_srcs(G, x) \cup get_dsts(G, x) # {} => x \in all_nodes(G)
  /\ \A x \in Names : get_srcs(G, x) \cup get_dsts(G, x) \subseteq all_nodes(G)
  /\ \A i \in 1..Len(G.recurrence_edges) :
       /\ G.recurrence_edges[i][2] \in get_dsts(G, G.recurrence_edges[i][1])
       /\ \A j \in 1..Len(G.recurrence_edges) :
            G.recurrence_edges[i] = G.recurrence_edges[j] => i = j

\* PowerModel( g ).group_nodes() on a graph whose edges join nodes of the
\* graph: the constructor calls topological_sort, then group_nodes runs.  The
\* simulator the constructor builds is not run and is left out of the state.
GroupNodes ==
  /\ ~ ret.called
  /\ pm.pc = "none"
  /\ WellFormed(g)
  /\ \E order \in topological_sort(g) :
       /\ ret' = [ called |-> TRUE, graph |-> g, value |-> order ]
       /\ IF Raised(order)
          THEN pm' = [ pc |-> "raised", raised |-> order[1], groups |-> << >> ]
          ELSE \E value \in group_nodes(g) :
                 pm' = [ pc     |-> IF value.raised = "" THEN "grouped" ELSE "raised",
                         raised |-> value.raised,
                         groups |-> value.groups ]
  /\ UNCHANGED << g, T, sims, sets >>

GraphInit ==
  /\ g = Graph
  /\ T = [ n \in all_nodes(g) |-> T_nominal ]
  /\ sims = << >>
  /\ sets = 0
  /\ ret = NoCall
  /\ pm = NoPowerModel

GraphNext ==
  \/ \E name \in Names : AddNode(name)
  \/ \E src_name, dst_name \in Names, recurrence \in BOOLEAN :
       ConnectNodes(src_name, dst_name, recurrence)
  \/ \E src_name, dst_name \in Names : DisconnectNodes(src_name, dst_name)
  \/ \E name \in Names : DeleteNode(name)
  \/ TopologicalSort
  \/ GroupNodes

GraphSpec == GraphInit /\ [][GraphNext]_vars

\* ------------------------------------------------------------------------
\* The end-to-end scenarios: a simulator over the four-node chain, the
\* one-node graph or a graph with a phi node; the modes of several nodes are
\* set with set_V_range and the simulator is reset and run with run()'s
\* default max_tokens
\* ------------------------------------------------------------------------

ScenarioGraphs == { Chain4, Single1, Phi4, PhiBack4 }

\* the V_range arguments: node name -> period of the mode
ScenarioRanges(G) ==
  IF G = Chain4
  THEN { [ n \in {"s", "a"} |-> T_fast ],
         [ n \in {"s", "a"} |-> T_nominal ],
         [ n \in {"a"} |-> T_fast ],
         [ n \in {"b"} |-> T_slow ],
         [ n \in {"a", "b"} |-> IF n = "a" THEN T_fast ELSE T_slow ] }
  ELSE IF "p" \in all_nodes(G)
  THEN { [ n \in all_nodes(G) |-> T_fast ],
         [ n \in {"p"} |-> T_slow ] }
  ELSE { [ n \in all_nodes(G) |-> T_fast ] }

\* PowerModel.set_V_range( V_range ): set_V_node for every entry
set_V_range(V_range) ==
  /\ Idle
  /\ sets < ScenarioSets
  /\ T' = [ n \in DOMAIN T |-> IF n \in DOMAIN V_range THEN V_range[n] ELSE T[n] ]
  /\ sets' = sets + 1
  /\ UNCHANGED << g, sims, ret, pm >>

\* sim.reset() followed by sim.run() up to its loop
reset_run(i) ==
  /\ Idle
  /\ sims[i].run_counter < MaxRuns
  /\ sims' = [ sims EXCEPT
                 ![i] = run_begin(Simulator_reset(@), run_max_tokens, scenario_max_time) ]
  /\ UNCHANGED << g, T, sets, ret, pm >>

ScenarioInit ==
  /\ g \in ScenarioGraphs
  /\ T = [ n \in all_nodes(g) |-> T_nominal ]
  /\ \E topo \in topological_sort(g) :
       sims = [ i \in Instances |-> Simulator(g, topo) ]
  /\ sets = 0
  /\ ret = NoCall
  /\ pm = NoPowerModel

ScenarioNext ==
  \/ \E V_range \in ScenarioRanges(g) : set_V_range(V_range)
  \/ reset_run(1)
  \/ Pop(1)
  \/ Tick(1)
  \/ Return(1)

ScenarioSpec == ScenarioInit /\ [][ScenarioNext]_vars

\* ------------------------------------------------------------------------
\* PowerModel.py: voltages, set_V_node, set_V_range, set_V_group,
\* set_V_setting.  A voltage is kept in hundredths of a volt.
\* ------------------------------------------------------------------------

V_nominal == 90

V_fast == 123

V_slow == 61

Voltages == { V_slow, V_nominal, V_fast }

conf_dvfs_V(mode) ==
  CASE mode = "nominal" -> V_nominal
    [] mode = "fast"    -> V_fast
    [] mode = "slow"    -> V_slow

\* PowerModel.T( V ); 0 stands for the assert False of a voltage that is
\* not in conf_dvfs
PowerModel_T(V) ==
  CASE V = V_nominal -> T_nominal
    [] V = V_fast    -> T_fast
    [] V = V_slow    -> T_slow
    [] OTHER         -> 0

\* the nodes as the PowerModel sees them: N.V[n] is Node.V, N.T[n] is
\* Node.T, N.raised the exception that ended the call
NodeState(Vs, Ts) == [ V |-> Vs, T |-> Ts, raised |-> "" ]

\* set_V_node that leaves Node.T alone
PowerModel_set_V_node_only_V(N, node_name, V) ==
  IF N.raised # "" THEN N
  ELSE [ N EXCEPT !.V[node_name] = V ]

\* set_V_node: set_V( V ), then set_T( s.T( V ) )
PowerModel_set_V_node(N, node_name, V) ==
  IF N.raised # "" THEN N
  ELSE IF PowerModel_T(V) = 0
  THEN [ N EXCEPT !.V[node_name] = V, !.raised = "AssertionError" ]
  ELSE [ N EXCEPT !.V[node_name] = V, !.T[node_name] = PowerModel_T(V) ]

RECURSIVE SetEach(_, _, _)
SetEach(N, V_range, names) ==
  IF names = {} THEN N
  ELSE LET node_name == CHOOSE n \in names : TRUE
       IN  SetEach(PowerModel_set_V_node(N, node_name, V_range[node_name]),
                   V_range, names \ {node_name})

\* set_V_range( V_range ) on the node state
PowerModel_set_V_range(N, V_range) == SetEach(N, V_range, DOMAIN V_range)

\* the V_range that set_V_group hands to set_V_range
set_V_group(group, mode) ==
  [ node_name \in Range(group) |->
      CASE mode = "r" -> V_slow
        [] mode = "n" -> V_nominal
        [] mode = "s" -> V_fast ]

\* set_V_setting: the calls of set_V_group, one for every key of setting
set_V_setting(groups, setting) ==
  [ k \in DOMAIN setting |-> set_V_group(groups[k], setting[k]) ]

\* a list of V_ranges applied one after the other
RECURSIVE SetAll(_, _)
SetAll(N, V_ranges) ==
  IF V_ranges = << >> THEN N
  ELSE SetAll(PowerModel_set_V_range(N, Head(V_ranges)), Tail(V_ranges))

\* extract_node_settings: node name -> Node.V
extract_node_settings(Vs) == [ node_name \in DOMAIN Vs |-> Vs[node_name] ]

\* json.dump and json.load of a node setting: a voltage is written as the
\* shortest decimal text that reads back as the same float
json_dump_V(V) ==
  CASE V = V_slow    -> "0.61"
    [] V = V_nominal -> "0.9"
    [] V = V_fast    -> "1.23"
    [] OTHER         -> "other"

\* a reader that takes every voltage to be nominal
json_load_V_nominal(text) == V_nominal

json_load_V(text) ==
  CASE text = "0.61" -> V_slow
    [] text = "0.9"  -> V_nominal
    [] text = "1.23" -> V_fast
    [] OTHER         -> 0

json_dump(setting) == [ node_name \in DOMAIN setting |-> json_dump_V(setting[node_name]) ]

json_load(file) == [ node_name \in DOMAIN file |-> json_load_V(file[node_name]) ]

\* ------------------------------------------------------------------------
\* PowerModel.py: compare and the choices of autosearch.  The power model
\* (P_cgra_total, E_cgra_total) is not modelled: compare() returns any of a
\* few results, in percent of the all-nominal baseline.
\* ------------------------------------------------------------------------

Outcomes ==
  { [ throughput |-> 150, eeff |-> 40 ],
    [ throughput |-> 100, eeff |-> 100 ],
    [ throughput |-> 120, eeff |-> 100 ] }

\* results['throughput'] * results['eeff']
Product(results) == results.throughput * results.eeff

\* perf_diff * eeff_diff > 1.00, both relative to current_results
Improves(results, current_results) == Product(results) > Product(current_results)

\* perf_diff * eeff_diff < 1.07
Below107(results, current_results) ==
  100 * Product(results) < 107 * Product(current_results)

\* node_name.split('_byp')[0] for the node names of the graphs below
stripped_name(node_name) ==
  CASE node_name = "x0_y0_byp"    -> "x0_y0"
    [] node_name = "x0_y1_byp"    -> "x0_y1"
    [] node_name = "x0_y1_bypalt" -> "x0_y1"
    [] OTHER                      -> node_name

\* tile_groups: the keys in the order of their first node, and the nodes
\* of a key in the order of all_nodes()
RECURSIVE TileNames(_)
TileNames(nodes) ==
  IF nodes = << >> THEN << >>
  ELSE LET rest == TileNames(SelectSeq(Tail(nodes),
                     LAMBDA n : stripped_name(n) # stripped_name(Head(nodes))))
       IN  << stripped_name(Head(nodes)) >> \o rest

TileNodes(G, tile) == SelectSeq(G.nodes, LAMBDA n : stripped_name(n) = tile)

tile_groups(G) == [ i \in DOMAIN TileNames(G.nodes) |-> TileNodes(G, TileNames(G.nodes)[i]) ]

SetMin(S) == CHOOSE x \in S : \A y \in S : x <= y

\* a test that takes the nodes of every tile to be at one voltage
SameVF_always(Vs, tiles) == TRUE

\* vdiff > -0.01 and vdiff < 0.01: the nodes of the tile are at one voltage
SameVF(Vs, tiles) ==
  SetMax({ Vs[n] : n \in Range(tiles) }) - SetMin({ Vs[n] : n \in Range(tiles) }) < 1

\* vf_options of a tile, from the lowest and the highest voltage of its nodes
vf_options(Vs, tiles, prioritize_energy) ==
  LET highest_vf == SetMax({ Vs[n] : n \in Range(tiles) })
      lowest_vf  == SetMin({ Vs[n] : n \in Range(tiles) })
  IN  IF prioritize_energy THEN << V_slow, V_nominal >>
      ELSE IF lowest_vf < 65
           THEN IF highest_vf < 95 THEN << V_slow, V_nominal >>
                ELSE << V_slow, V_nominal, V_fast >>
           ELSE << V_nominal, V_fast >>

\* the loop "if max_ed >= 0.99*value: max_vf = vf" over ed_product.items(),
\* tried being the list of [ vf, results ] in the order of the trials; the
\* ED products share the divisor Product(current_results)
RECURSIVE PickLoop(_, _, _)
PickLoop(tried, max_ed, max_vf) ==
  IF tried = << >> THEN max_vf
  ELSE PickLoop(Tail(tried), max_ed,
                IF 100 * max_ed >= 99 * Product(Head(tried).results)
                THEN Head(tried).vf ELSE max_vf)

max_vf(tried) ==
  PickLoop(tried, SetMax({ Product(tried[i].results) : i \in DOMAIN tried }), 0)

\* ------------------------------------------------------------------------
\* PowerModel.autosearch over a graph read from a JSON: the two tiles x0_y0
\* and x0_y1 with a bypass node each, xdim = 1
\* ------------------------------------------------------------------------

Tiles4 ==
  Connect(AddNodes(Graph, << "x0_y0", "x0_y1", "x0_y0_byp", "x0_y1_byp" >>),
          << << "x0_y0_byp", "x0_y0" >>, << "x0_y0", "x0_y1" >>,
             << "x0_y1", "x0_y1_byp" >> >>, {})

AutoGraphs == { Tiles4 }

\* the files autosearch writes next to the JSON of the graph
NoFiles ==
  [ pre_nodes        |-> << >>,
    pre_eeff_nodes   |-> << >>,
    final_nodes      |-> << >>,
    final_eeff_nodes |-> << >>,
    dvfs_json        |-> << >> ]

NoResults == [ throughput |-> 0, eeff |-> 0 ]

\* PowerModel( graph ): every node at Node's defaults V_N = 0.9, T_N = 1.0.
\* phase and step say where autosearch stands: step "calc" before a call of
\* calc_performance, "run" during it, "compare" before compare().  run_V and
\* run_T are the voltages and periods the running (last) simulation was
\* started under, perf_V and perf_T those of the simulation that s.throughput
\* and s.latency come from; stale says that the last compare() read a
\* measurement taken under other voltages or periods than the nodes had.
PowerModel(G) ==
  [ pc                |-> "built",
    raised            |-> "",
    V                 |-> [ n \in all_nodes(G) |-> V_nominal ],
    skip_search       |-> FALSE,
    prioritize_energy |-> FALSE,
    phase             |-> "",
    step              |-> "",
    groups            |-> << >>,
    setting           |-> << >>,
    k                 |-> 0,
    node_setting      |-> << >>,
    tile              |-> 0,
    options           |-> << >>,
    option            |-> 0,
    tried             |-> << >>,
    current_results   |-> NoResults,
    final_results     |-> NoResults,
    perf              |-> NoResult,
    run_V             |-> << >>,
    run_T             |-> << >>,
    perf_V            |-> << >>,
    perf_T            |-> << >>,
    stale             |-> FALSE,
    apply             |-> << >>,
    files             |-> NoFiles,
    full_final        |-> << >>,
    set_call          |-> << >>,
    reread            |-> << >> ]

\* a loop of Phase 2 that goes to the last compare() without a last
\* calc_performance()
TryGroup_nocalc(P, k) ==
  IF k > Len(P.groups)
  THEN [ P EXCEPT !.phase = "p2_final", !.step = "compare" ]
  ELSE LET setting == [ P.setting EXCEPT ![k] = "r" ]
       IN  [ P EXCEPT !.phase   = "p2_r",
                      !.step    = "calc",
                      !.k       = k,
                      !.setting = setting,
                      !.apply   = @ \o set_V_setting(P.groups, setting) ]

\* the next group of Phase 2: setting[k] = 'r' and a trial, or the end of
\* the loop
TryGroup(P, k) ==
  IF k > Len(P.groups)
  THEN [ P EXCEPT !.phase = "p2_final", !.step = "calc" ]
  ELSE LET setting == [ P.setting EXCEPT ![k] = "r" ]
       IN  [ P EXCEPT !.phase   = "p2_r",
                      !.step    = "calc",
                      !.k       = k,
                      !.setting = setting,
                      !.apply   = @ \o set_V_setting(P.groups, setting) ]

\* Phase 3 starts from extracted_settings
Phase3Begin(P, extracted_settings) ==
  [ P EXCEPT !.phase        = "p3_start",
             !.step         = "calc",
             !.node_setting = extracted_settings,
             !.apply        = << extracted_settings >> ]

\* after the baseline run of Phase 1
AfterBaseline(P) ==
  IF P.skip_search
  THEN Phase3Begin(P, json_load(IF P.prioritize_energy THEN P.files.pre_eeff_nodes
                                                       ELSE P.files.pre_nodes))
  ELSE LET setting == [ k \in DOMAIN P.groups |->
                          IF P.prioritize_energy THEN "n" ELSE "s" ]
       IN  [ P EXCEPT !.phase   = "p2_start",
                      !.step    = "calc",
                      !.setting = setting,
                      !.apply   = set_V_setting(P.groups, setting) ]

\* setting[k] goes back to mode, the graph stays as the last trial left it
Revert_setting_only(P, mode) ==
  [ P EXCEPT !.setting = [ P.setting EXCEPT ![P.k] = mode ] ]

\* setting[k] goes back to mode and the graph is set to it without a run
Revert(P, mode) ==
  LET setting == [ P.setting EXCEPT ![P.k] = mode ]
  IN  [ P EXCEPT !.setting = setting,
                 !.apply   = set_V_setting(P.groups, setting) ]

\* the trial of 'r' for group k has been compared
AfterRest(P, results) ==
  IF Improves(results, P.current_results)
  THEN TryGroup([ P EXCEPT !.current_results = results ], P.k + 1)
  ELSE IF P.prioritize_energy
  THEN TryGroup(Revert(P, "n"), P.k + 1)
  ELSE IF Below107(results, P.current_results)
  THEN LET setting == [ P.setting EXCEPT ![P.k] = "n" ]
       IN  [ P EXCEPT !.phase   = "p2_n",
                      !.step    = "calc",
                      !.setting = setting,
                      !.apply   = set_V_setting(P.groups, setting) ]
  ELSE TryGroup([ P EXCEPT !.current_results = results ], P.k + 1)

\* the trial of 'n' for group k has been compared
AfterNominal(P, results) ==
  IF Improves(results, P.current_results)
  THEN TryGroup([ P EXCEPT !.current_results = results ], P.k + 1)
  ELSE IF Below107(results, P.current_results)
  THEN TryGroup(Revert(P, "s"), P.k + 1)
  ELSE TryGroup([ P EXCEPT !.current_results = results ], P.k + 1)

\* the end of Phase 2: the node setting is read from the graph and written
\* to '.pre.nodes' ('.pre.eeff.nodes')
AfterPhase2(P, results) ==
  LET extracted_settings == extract_node_settings(P.V)
      files == IF P.prioritize_energy
               THEN [ P.files EXCEPT !.pre_eeff_nodes = json_dump(extracted_settings) ]
               ELSE [ P.files EXCEPT !.pre_nodes = json_dump(extracted_settings) ]
  IN  Phase3Begin([ P EXCEPT !.files = files, !.final_results = results ],
                  extracted_settings)

\* one trial of Phase 3: the nodes of the tile at option j
TryOption(P, j) ==
  LET tiles       == tile_groups(g)[P.tile]
      new_setting == [ n \in DOMAIN P.node_setting |->
                         IF n \in Range(tiles) THEN P.options[j] ELSE P.node_setting[n] ]
  IN  [ P EXCEPT !.phase  = "p3_try",
                 !.step   = "calc",
                 !.option = j,
                 !.apply  = << new_setting >> ]

\* the loop over the tiles from tile i on: a tile whose nodes are at one
\* voltage in the graph is skipped
RECURSIVE NextTile(_, _)
NextTile(P, i) ==
  IF i > Len(tile_groups(g))
  THEN [ P EXCEPT !.phase = "p3_final", !.step = "calc",
                  !.tile = 0, !.options = << >>, !.option = 0, !.tried = << >> ]
  ELSE IF SameVF(P.V, tile_groups(g)[i]) THEN NextTile(P, i + 1)
  ELSE TryOption([ P EXCEPT !.tile    = i,
                            !.options = vf_options(P.V, tile_groups(g)[i],
                                                   P.prioritize_energy),
                            !.tried   = << >> ], 1)

\* a trial of Phase 3 has been compared: the next option, or the choice
\* among the options and the next tile
AfterOption(P, results) ==
  LET tried == Append(P.tried, [ vf |-> P.options[P.option], results |-> results ])
  IN  IF P.option < Len(P.options)
      THEN TryOption([ P EXCEPT !.tried = tried ], P.option + 1)
      ELSE LET vf     == max_vf(tried)
               tiles  == tile_groups(g)[P.tile]
               chosen == { i \in DOMAIN tried : tried[i].vf = vf }
           IN  IF chosen = {}
               THEN [ P EXCEPT !.pc = "raised", !.raised = "KeyError" ]
               ELSE NextTile(
                      [ P EXCEPT
                          !.node_setting = [ n \in DOMAIN @ |->
                                               IF n \in Range(tiles) THEN vf ELSE @[n] ],
                          !.current_results = tried[CHOOSE i \in chosen : TRUE].results ],
                      P.tile + 1)

\* Graph.dump_vf_json: the dvfs word of every tile of the JSON, from the
\* voltage of the first node whose name starts with the name of the tile
dump_vf_json(G, Vs) ==
  [ i \in DOMAIN TileNames(G.nodes) |->
      LET V == Vs[TileNodes(G, TileNames(G.nodes)[i])[1]]
      IN  [ tile |-> TileNames(G.nodes)[i],
            dvfs |-> IF V < 65 THEN "rest" ELSE IF V < 95 THEN "nominal" ELSE "sprint" ] ]

\* the end of autosearch: the node setting is read from the graph and
\* written to '.final.nodes' ('.final.eeff.nodes'), the dvfs words to the
\* JSON
AfterPhase3(P, results) ==
  LET extracted_settings == extract_node_settings(P.V)
      files == IF P.prioritize_energy
               THEN [ P.files EXCEPT !.final_eeff_nodes = json_dump(extracted_settings),
                                     !.dvfs_json = dump_vf_json(g, P.V) ]
               ELSE [ P.files EXCEPT !.final_nodes = json_dump(extracted_settings),
                                     !.dvfs_json = dump_vf_json(g, P.V) ]
  IN  [ P EXCEPT !.pc = "done", !.phase = "", !.step = "",
                 !.files = files,
                 !.node_setting = << >>,
                 !.current_results = NoResults,
                 !.full_final = IF P.skip_search THEN @ ELSE P.V ]

\* what autosearch does with the results of a compare()
AfterCompare(P, results) ==
  CASE P.phase = "p2_start" -> TryGroup([ P EXCEPT !.current_results = results ], 1)
    [] P.phase = "p2_r"     -> AfterRest(P, results)
    [] P.phase = "p2_n"     -> AfterNominal(P, results)
    [] P.phase = "p2_final" -> AfterPhase2(P, results)
    [] P.phase = "p3_start" -> NextTile([ P EXCEPT !.current_results = results ], 1)
    [] P.phase = "p3_try"   -> AfterOption(P, results)
    [] P.phase = "p3_final" -> AfterPhase3(P, results)

\* the settings a step has asked for are applied to the nodes
Applied(P, Ts) ==
  LET N == SetAll(NodeState(P.V, Ts), P.apply)
  IN  [ P |-> [ P EXCEPT !.V      = N.V,
                         !.apply  = << >>,
                         !.pc     = IF N.raised # "" THEN "raised" ELSE @,
                         !.raised = IF N.raised # "" THEN N.raised ELSE @ ],
        T |-> N.T ]

\* PowerModel.set_V_node( node_name, V ) called from outside, before
\* autosearch
SetVNode(node_name, V) ==
  /\ pm.pc = "built"
  /\ LET N == PowerModel_set_V_node(NodeState(pm.V, T), node_name, V)
     IN  /\ pm' = [ pm EXCEPT !.V        = N.V,
                              !.set_call = << node_name, V >>,
                              !.pc       = IF N.raised # "" THEN "raised" ELSE @,
                              !.raised   = N.raised ]
         /\ T' = N.T
  /\ UNCHANGED << g, sims, sets, ret >>

\* autosearch up to the first calc_performance: Phase 1 groups the nodes
\* and sets every group to nominal.  skip_search is used after a full
\* search of the same kind has written its files.
autosearch(skip_search, prioritize_energy) ==
  /\ Idle
  /\ \/ pm.pc = "built" /\ ~ skip_search
     \/ /\ pm.pc = "done" /\ skip_search /\ ~ pm.skip_search
        /\ prioritize_energy = pm.prioritize_energy
        /\ pm.reread = << >>
  /\ \E grouped \in group_nodes(g) :
       IF grouped.raised # ""
       THEN /\ pm' = [ pm EXCEPT !.pc = "raised", !.raised = grouped.raised ]
            /\ T' = T
       ELSE LET start == [ pm EXCEPT
                             !.pc                = "autosearch",
                             !.phase             = "p1",
                             !.step              = "calc",
                             !.skip_search       = skip_search,
                             !.prioritize_energy = prioritize_energy,
                             !.groups            = grouped.groups,
                             !.set_call          = << >>,
                             !.final_results     = NoResults,
                             !.apply = set_V_setting(grouped.groups,
                                         [ k \in DOMAIN grouped.groups |-> "n" ]) ]
                next  == Applied(start, T)
            IN  pm' = next.P /\ T' = next.T
  /\ UNCHANGED << g, sims, sets, ret >>

\* PowerModel.calc_performance up to the loop of run(): the simulator is
\* reset and the run starts
PowerModel_calc_performance ==
  /\ Idle
  /\ pm.pc = "autosearch" /\ pm.step = "calc"
  /\ sims' = [ sims EXCEPT ![1] = run_begin(Simulator_reset(@), MaxTokens, max_time) ]
  /\ pm' = [ pm EXCEPT !.step = "run", !.run_V = pm.V, !.run_T = T ]
  /\ UNCHANGED << g, T, sets, ret >>

\* calc_performance returns: s.throughput and s.latency are those of the
\* run; in Phase 1 they are the baseline and autosearch goes on to Phase 2
Measured ==
  /\ Idle
  /\ pm.pc = "autosearch" /\ pm.step = "run"
  /\ LET P == [ pm EXCEPT !.perf   = sims[1].result,
                          !.perf_V = pm.run_V,
                          !.perf_T = pm.run_T ]
     IN  IF pm.phase = "p1"
         THEN LET next == Applied(AfterBaseline(P), T)
              IN  pm' = next.P /\ T' = next.T
         ELSE pm' = [ P EXCEPT !.step = "compare" ] /\ T' = T
  /\ UNCHANGED << g, sims, sets, ret >>

\* compare() and what autosearch does with its results, up to the next
\* calc_performance
Compare ==
  /\ pm.pc = "autosearch" /\ pm.step = "compare"
  /\ \E results \in Outcomes :
       LET P    == [ pm EXCEPT !.stale = (pm.perf_V # pm.V \/ pm.perf_T # T) ]
           next == Applied(AfterCompare(P, results), T)
       IN  pm' = next.P /\ T' = next.T
  /\ UNCHANGED << g, sims, sets, ret >>

conf_dvfs_modes == { "nominal", "fast", "slow" }

\* Graph.configure_json on the JSON dump_vf_json wrote: conf_dvfs[ dvfs ] of
\* every tile in turn; a word that is no key of conf_dvfs ends the call with
\* an AssertionError
RECURSIVE configure_json(_, _)
configure_json(data, done) ==
  IF data = << >> THEN [ raised |-> "", V |-> done ]
  ELSE IF Head(data).dvfs \notin conf_dvfs_modes
  THEN [ raised |-> "AssertionError", V |-> done ]
  ELSE configure_json(Tail(data),
                      Append(done, [ tile |-> Head(data).tile,
                                     V    |-> conf_dvfs_V(Head(data).dvfs),
                                     T    |-> conf_dvfs_T(Head(data).dvfs) ]))

\* the JSON written by autosearch is read into a new graph
ConfigureJson ==
  /\ pm.pc = "done"
  /\ pm.reread = << >>
  /\ pm' = [ pm EXCEPT !.reread = << configure_json(pm.files.dvfs_json, << >>) >> ]
  /\ UNCHANGED << g, T, sims, sets, ret >>

AutoVoltages == Voltages \cup { 100 }

AutoInit ==
  /\ g \in AutoGraphs
  /\ T = [ n \in all_nodes(g) |-> T_nominal ]
  /\ \E topo \in topological_sort(g) :
       sims = [ i \in Instances |-> Simulator(g, topo) ]
  /\ sets = 0
  /\ ret = NoCall
  /\ pm = PowerModel(g)

AutoNext ==
  \/ \E n \in all_nodes(g), V \in AutoVoltages : SetVNode(n, V)
  \/ \E skip_search, prioritize_energy \in BOOLEAN :
       autosearch(skip_search, prioritize_energy)
  \/ PowerModel_calc_performance
  \/ Measured
  \/ Compare
  \/ ConfigureJson
  \/ Pop(1)
  \/ Tick(1)
  \/ Return(1)

AutoSpec == AutoInit /\ [][AutoNext]_vars

\* ------------------------------------------------------------------------
\* Claims
\* ------------------------------------------------------------------------

AllNominal == \A n \in all_nodes(g) : T[n] = T_nominal

\* C1: in every reachable state every real and every shadow input queue of
\* every SimNode has length at most 2.
C1_QueueBound ==
  \A i \in Instances : \A n \in all_nodes(g) :
    \A k \in DOMAIN sims[i].sim_nodes[n].queues :
      /\ Len(sims[i].sim_nodes[n].queues[k]) <= 2
      /\ Len(sims[i].sim_nodes[n].shadow_queues[k]) <= 2

\* a real and a shadow queue are full and the producer is held back
C1_Witness ==
  \E i \in Instances : \E e \in Edges(g) :
    /\ Len(sims[i].sim_nodes[e[2]].queues[e[1]]) = 2
    /\ Len(sims[i].sim_nodes[e[2]].shadow_queues[e[1]]) = 2
    /\ sims[i].wires_fanout[e].value # 0

\* C2: within one time step (the ticks between two shadow-to-real copies) no
\* token crosses two wires: a token that a push into v made v fire is never
\* pushed from a wire v -> w in the step it was fired in.
C2_OneHopPerStep ==
  \A i \in Instances : \A p \in sims[i].pushes :
    ~ (p.token.by = "fire_push" /\ p.token.born = p.copies)

\* a token fired by a push crosses the next wire, in a later step
C2_Witness ==
  \E i \in Instances : \E p \in sims[i].pushes :
    p.token.by = "fire_push" /\ p.token.born < p.copies

\* C3: every fire of node n at time t sets each outgoing shadow token of n
\* with guard begin t and guard span n.T, and such a token is never pushed
\* into the consumer's queue at a global time earlier than t + n.T - 0.001.
C3_GuardedPush ==
  \A i \in Instances :
    /\ \A f \in sims[i].fires : \A e \in Edges(g) :
         e[1] = f.node =>
           /\ sims[i].shadow_fanout[e].guard_set
           /\ sims[i].shadow_fanout[e].guard_begin = f.time
           /\ sims[i].shadow_fanout[e].guard_span = f.T
    /\ \A p \in sims[i].pushes :
         p.token.by \in {"fire_push", "fire_tick"} =>
           p.at >= p.token.guard_begin + p.token.guard_span - guard_slack

SameToken(a, b) ==
  /\ a.value = b.value
  /\ a.guard_begin = b.guard_begin
  /\ a.guard_span = b.guard_span
  /\ a.guard_set = b.guard_set

C4_PopStep(s, t) ==
  LET time == s.container[Len(s.container)][1]
  IN  IF time > s.global_time
      THEN /\ t.copies = s.copies + 1
           /\ \A e \in Edges(g) :
                /\ SameToken(t.wires_fanout[e], t.shadow_fanout[e])
                /\ SameToken(t.shadow_fanout[e], s.shadow_fanout[e])
           /\ \A n \in all_nodes(g) :
                /\ t.sim_nodes[n].queues = t.sim_nodes[n].shadow_queues
                /\ t.sim_nodes[n].shadow_queues = s.sim_nodes[n].shadow_queues
                /\ ~ t.sim_nodes[n].pipewait
           /\ t.global_time = time
      ELSE /\ t.copies = s.copies
           /\ t.wires_fanout = s.wires_fanout
           /\ t.sim_nodes = s.sim_nodes
           /\ t.global_time = s.global_time

\* C4: in run() the shadow-to-real copy happens exactly when the popped
\* event's time exceeds global_time; right after it, before the tick, every
\* real wire token equals its shadow token in all four fields, every real
\* queue equals its shadow queue, every pipewait is false and global_time is
\* the popped time; no other step of run() copies.
C4_CopyOnTimeAdvance ==
  [][ \A i \in Instances :
        /\ sims[i].pc = "while" /\ sims'[i].pc = "tick" => C4_PopStep(sims[i], sims'[i])
        /\ sims[i].pc # "while" => sims'[i].copies = sims[i].copies ]_vars

\* a copy has just moved an armed token and a queued token to the real side
C4_Witness ==
  \E i \in Instances :
    /\ sims[i].pc = "tick" /\ sims[i].copied
    /\ \E e \in Edges(g) :
         /\ sims[i].wires_fanout[e].guard_set /\ sims[i].wires_fanout[e].value # 0
         /\ sims[i].sim_nodes[e[2]].queues[e[1]] # << >>

\* C5: of two nodes ticked at the same global_time, the one that comes later
\* in the order topological_sort returned is ticked first.
C5_ReverseTopological ==
  \A i \in Instances :
    \A a, b \in 1..Len(sims[i].ticked) :
      a < b /\ sims[i].ticked[a] # sims[i].ticked[b] =>
        IndexOf(sims[i].topo, sims[i].ticked[a]) > IndexOf(sims[i].topo, sims[i].ticked[b])

\* every node of a graph of four nodes has been ticked at one time
C5_Witness ==
  \E i \in Instances : Len(g.nodes) >= 4 /\ Range(sims[i].ticked) = all_nodes(g)

OnlyRecurrenceCycle == g \in {Rec4, ToyDfg3}

\* C6: for a graph whose only cycle is closed by a declared recurrence edge,
\* with all nodes at nominal, run() ends because the live-in's token_counter
\* exceeds max_tokens, not because global_time exceeds max_time.
C6_RecurrenceNoDeadlock ==
  \A i \in Instances :
    OnlyRecurrenceCycle /\ AllNominal /\ sims[i].pc = "return" =>
      /\ ~ sims[i].timed_out
      /\ sims[i].sim_nodes[sims[i].live_in_node].token_counter > MaxTokens
      /\ sims[i].global_time <= max_time

\* the run over ToyDfg3 has ended on the token count
C6_Witness ==
  \E i \in Instances :
    /\ g = ToyDfg3 /\ AllNominal /\ sims[i].pc = "return"
    /\ sims[i].token_count > MaxTokens

\* C7: run() leaves its loop and never raises; when the tracked live-in has
\* not exceeded max_tokens the loop is left once global_time exceeds
\* max_time, the time-out is reported and the state is left as it is.
C7_RunTerminates ==
  /\ [](\A i \in Instances : sims[i].pc # "raised")
  /\ [](\A i \in Instances :
          sims[i].pc = "return" /\ sims[i].token_count <= MaxTokens =>
            sims[i].timed_out /\ sims[i].global_time > max_time)
  /\ [][ \A i \in Instances :
           sims[i].pc = "while" /\ sims'[i].pc = "return" =>
             /\ sims'[i].sim_nodes = sims[i].sim_nodes
             /\ sims'[i].wires_fanout = sims[i].wires_fanout
             /\ sims'[i].shadow_fanout = sims[i].shadow_fanout
             /\ sims'[i].global_time = sims[i].global_time ]_vars
  /\ \A i \in Instances : (sims[i].pc = "while") ~> (sims[i].pc = "return")

\* a deadlocked dataflow has run into the time-out
C7_Witness ==
  \E i \in Instances :
    /\ sims[i].pc = "return" /\ sims[i].timed_out
    /\ sims[i].token_count <= MaxTokens

\* C8 as claimed: no tick is executed once any live-in's token_counter has
\* exceeded max_tokens.
C8_StopsOnAnyLiveIn ==
  \A i \in Instances :
    sims[i].pc = "tick" =>
      \A n \in all_nodes(g) :
        live_in(g, n) => sims[i].sim_nodes[n].token_counter <= MaxTokens

\* C8 as amended: run() tracks the first live-in in node order, and no tick
\* is executed once that node's token_counter has exceeded max_tokens.
C8_StopsOnTrackedLiveIn ==
  \A i \in Instances :
    sims[i].pc = "tick" =>
      /\ sims[i].live_in_node = FirstLiveIn(g)
      /\ sims[i].sim_nodes[sims[i].live_in_node].token_counter <= MaxTokens

\* a tick is about to run although another live-in has exceeded max_tokens
C8_Witness ==
  \E i \in Instances :
    /\ sims[i].pc = "tick"
    /\ \E n \in all_nodes(g) :
         /\ live_in(g, n) /\ n # sims[i].live_in_node
         /\ sims[i].sim_nodes[n].token_counter > MaxTokens

C10_RepeatIdentical ==
  \A i \in Instances :
    sims[i].pc = "idle" /\ sims[i].run_counter >= 2 /\ sims[i].last_T = sims[i].prev_T =>
      sims[i].result = sims[i].prev_result

\* ------------------------------------------------------------------------
\* Graph.py: topological_sort and the adjacency lists (GraphSpec)
\* ------------------------------------------------------------------------

NonRecurrenceEdges(G) == Edges(G) \ Range(G.recurrence_edges)

Respects(G, order) ==
  \A e \in NonRecurrenceEdges(G) :
    IndexOf(order, e[1]) < IndexOf(order, e[2])

IsTopologicalOrder(G, order) ==
  /\ order \in Perms(all_nodes(G))
  /\ Respects(G, order)

\* the edges that are not declared recurrence edges form no cycle
Sortable(G) == \E order \in Perms(all_nodes(G)) : Respects(G, order)

\* C15: topological_sort returns a list that holds every node of the graph
\* exactly once and nothing else, with u before v for every edge u -> v that
\* is not a declared recurrence edge (stated for the well-formed graphs that
\* have such an order).
C15_TopologicalOrder ==
  ret.called /\ WellFormed(ret.graph) /\ Sortable(ret.graph) =>
    IsTopologicalOrder(ret.graph, ret.value)

\* C16: topological_sort returns an order and never raises, for every
\* well-formed graph, cyclic or not.
C16_NeverRaises ==
  ret.called /\ WellFormed(ret.graph) => ~ Raised(ret.value)

\* C17: after any sequence of add_node, connect, disconnect and delete_node,
\* y is a source of x exactly when x is a destination of y.
C17_AdjlistsMirror ==
  \A x \in Names : \A y \in Names :
    y \in get_srcs(g, x) <=> x \in get_dsts(g, y)

\* an edge has been connected and another one disconnected again (its
\* recurrence declaration is left behind), and a node with an edge has been
\* deleted
C17_Witness ==
  /\ \E e \in Range(g.recurrence_edges) : e[2] \notin get_dsts(g, e[1])
  /\ \E x \in Names : get_srcs(g, x) # {} /\ x \notin all_nodes(g)
  /\ \E x \in all_nodes(g) : get_dsts(g, x) # {}

\* ------------------------------------------------------------------------
\* Simulator.py: the priority queue, reset() and the wires (Spec)
\* ------------------------------------------------------------------------

EventsOf(s, n) == { k \in 1..Len(s.container) : s.container[k][2] = n }

OneEventPerNode(s) ==
  \A n \in all_nodes(g) :
    /\ Cardinality(EventsOf(s, n)) = 1
    /\ \A k \in EventsOf(s, n) : s.container[k][1] = s.sim_nodes[n].time

\* C11: at every turn of the scheduling loop, over any number of reset()/run()
\* cycles, the priority queue holds exactly one event per node, at the node's
\* own time, and a node that is ticked is ticked at the global time.
C11_OneEventPerNode ==
  \A i \in Instances :
    /\ sims[i].pc = "while" => OneEventPerNode(sims[i])
    /\ sims[i].pc = "tick" =>
         sims[i].sim_nodes[sims[i].name].time = sims[i].global_time

\* the same within the first run of a simulator
C11_FirstRun ==
  \A i \in Instances :
    sims[i].run_counter = 0 =>
      /\ sims[i].pc = "while" => OneEventPerNode(sims[i])
      /\ sims[i].pc = "tick" =>
           sims[i].sim_nodes[sims[i].name].time = sims[i].global_time

\* the four fields of a wire token that the copy carries over
Fields(tok) == << tok.value, tok.guard_begin, tok.guard_span, tok.guard_set >>

Consumed(tok) == << 0, tok.guard_begin, tok.guard_span, FALSE >>

\* the step is the tick of the popped node of simulator i
TickStep(i) == sims[i].pc = "tick" /\ sims'[i].pc # "tick"

\* the step is a pop of simulator i that copies the shadow wires
CopyStep(i) == sims[i].pc = "while" /\ sims'[i].copies = sims[i].copies + 1

\* the step is the reset() at the head of calc_performance
ResetStep(i) == sims[i].pc = "idle" /\ sims'[i].pc # "idle"

JustConstructed(s) == s.pc = "idle" /\ s.run_counter = 0 /\ sets = 0

\* reset() has returned and run() has not yet popped an event
JustReset(s) ==
  /\ s.pc = "while" /\ s.ticked = << >> /\ ~ s.copied
  /\ s.fires = {} /\ s.pushes = {}

NodesReset(s) ==
  /\ s.global_time = 0
  /\ \A n \in DOMAIN s.sim_nodes :
       /\ \A k \in DOMAIN s.sim_nodes[n].queues :
            s.sim_nodes[n].queues[k] = << >> /\ s.sim_nodes[n].shadow_queues[k] = << >>
       /\ s.sim_nodes[n].token_counter = 1
       /\ s.sim_nodes[n].time = 0
       /\ ~ s.sim_nodes[n].pipewait

Seeded(tok, span) ==
  tok.value = 1 /\ tok.guard_set /\ tok.guard_begin = 0 /\ tok.guard_span = span

\* the wires as the claim words them: span 0 on every recurrence edge
WiresReset_stated(s) ==
  \A e \in DOMAIN s.wires_fanout :
    LET rec == e \in Range(g.recurrence_edges)
        phi == g.op[e[1]] = "phi"
    IN  /\ rec => Seeded(s.wires_fanout[e], 0) /\ Seeded(s.shadow_fanout[e], 0)
        /\ phi => /\ s.wires_fanout[e].value = 1
                  /\ s.wires_fanout[e].guard_span = T[e[1]]
                  /\ s.shadow_fanout[e].value = 1
                  /\ s.shadow_fanout[e].guard_span = T[e[1]]
        /\ ~ rec /\ ~ phi =>
             s.wires_fanout[e].value = 0 /\ s.shadow_fanout[e].value = 0

\* the wires as reset() leaves them: the seeding of the phi nodes comes last
WiresReset(s) ==
  \A e \in DOMAIN s.wires_fanout :
    LET rec == e \in Range(g.recurrence_edges)
        phi == g.op[e[1]] = "phi"
    IN  /\ phi => Seeded(s.wires_fanout[e], T[e[1]]) /\ Seeded(s.shadow_fanout[e], T[e[1]])
        /\ rec /\ ~ phi => Seeded(s.wires_fanout[e], 0) /\ Seeded(s.shadow_fanout[e], 0)
        /\ ~ rec /\ ~ phi =>
             s.wires_fanout[e].value = 0 /\ s.shadow_fanout[e].value = 0

\* C12 as stated: after reset() the global time is 0, every node has empty
\* queues, token_counter 1, time 0 and no pipewait, every wire token is
\* empty, except that every recurrence edge carries value 1 with guard begin
\* 0 and span 0 and every outgoing wire of a phi node carries value 1 with
\* span node.T, on the real and on the shadow token.
C12_ResetState_stated ==
  \A i \in Instances :
    JustConstructed(sims[i]) \/ JustReset(sims[i]) =>
      NodesReset(sims[i]) /\ WiresReset_stated(sims[i])

\* C12: the same, where a recurrence edge carries span 0 only when its source
\* is not a phi node: an outgoing wire of a phi node carries value 1 with
\* guard begin 0 and span node.T whether or not it is a recurrence edge.
C12_ResetState ==
  \A i \in Instances :
    JustConstructed(sims[i]) \/ JustReset(sims[i]) =>
      NodesReset(sims[i]) /\ WiresReset(sims[i])

\* reset() has acted after a run that left tokens behind, on the graph with
\* a recurrence edge into the phi node, whose period has been changed
C12_Witness ==
  /\ g = Phi4 /\ T["p"] = T_fast
  /\ JustReset(sims[1]) /\ sims[1].run_counter = 1
  /\ sims[1].prev_result.token_count > 1
  /\ Seeded(sims[1].wires_fanout[<<"a", "p">>], 0)
  /\ Seeded(sims[1].wires_fanout[<<"p", "a">>], T_fast)

\* C18: on the graph of a single node with no edge the call completes, with
\* a global time above 0 so that the throughput is finite; it never raises.
C18_SingleNodeCompletes ==
  g = Single1 =>
    \A i \in Instances :
      /\ sims[i].pc # "raised"
      /\ sims[i].pc = "return" => sims[i].global_time > 0

\* the global times at which the tracked live-in has produced a token in
\* the current run
Emissions(s) ==
  LET own == SelectSeq(s.emits, LAMBDA f : f.node = s.live_in_node)
  IN  [ k \in 1..Len(own) |-> own[k].at ]

\* the tokens the input queues of the graph can hold
StartupTokens == maxlen * Cardinality(Edges(g))

\* from the K-th emission on, each emission comes exactly one period after
\* the one before it
SteadyFrom(s, K, period) ==
  \A k \in (K + 1)..Len(Emissions(s)) :
    Emissions(s)[k] - Emissions(s)[k - 1] = period

\* max_tokens emissions, the last one at the end of the run
CountedEmissions(s) ==
  /\ Len(Emissions(s)) = s.max_tokens
  /\ s.global_time = Emissions(s)[Len(Emissions(s))]

Chain4Nominal == g = Chain4 /\ T = [ n \in all_nodes(Chain4) |-> T_nominal ]

Chain4Bottleneck ==
  /\ g = Chain4
  /\ T = [ n \in all_nodes(Chain4) |->
             IF n = "a" THEN T_fast ELSE IF n = "b" THEN T_slow ELSE T_nominal ]

\* C19: on the chain s -> a -> b -> t with every node at nominal, the live-in
\* emits one token per nominal cycle after startup and run(max_tokens=10) ends
\* at a global time within one cycle of 10.
C19_ChainNominal ==
  Chain4Nominal /\ sims[1].pc = "return" =>
    /\ CountedEmissions(sims[1])
    /\ \E K \in 1..StartupTokens : SteadyFrom(sims[1], K, T_nominal)
    /\ sims[1].global_time >= (run_max_tokens - 1) * T_nominal
    /\ sims[1].global_time <= (run_max_tokens + 1) * T_nominal

\* the same for the first run of a simulator
C19_FirstRun ==
  sims[1].run_counter = 0 => C19_ChainNominal

\* C20: on the chain with a at sprint, b at rest and s, t at nominal, the
\* live-in emits one token per 3.0 time units once the queues are full, and
\* the run ends with its last emission, 3.0 * max_tokens plus an offset that
\* the startup bounds.
C20_ChainBottleneck ==
  Chain4Bottleneck /\ sims[1].pc = "return" =>
    /\ CountedEmissions(sims[1])
    /\ \E K \in 1..StartupTokens : SteadyFrom(sims[1], K, T_slow)

\* the same for the first run of a simulator
C20_FirstRun ==
  sims[1].run_counter = 0 => C20_ChainBottleneck

\* ------------------------------------------------------------------------
\* Simulator.py: the tick times of a node at T = 0.66
\* ------------------------------------------------------------------------

\* the fractional part of a time is 0.98
Frac98(time) == time % T_nominal = T_nominal - 200

\* C21: within a run a node at T = 0.66 is scheduled at 0, 0.66, 1.32, 2.00,
\* 2.66, 3.32, 4.00, ...: its time is never left at a value with fractional
\* part 0.98 (stated for the first run of a simulator, where every node is
\* ticked once per period).
C21_FastClockSnap ==
  \A i \in Instances : \A n \in DOMAIN sims[i].sim_nodes :
    sims[i].run_counter = 0 /\ sims[i].pc \in {"while", "tick", "return"}
      /\ T[n] = T_fast =>
        ~ Frac98(sims[i].sim_nodes[n].time)

\* ------------------------------------------------------------------------
\* PowerModel.py: group_nodes (GraphSpec)
\* ------------------------------------------------------------------------

\* the groups hold every node of G exactly once
Partitions(G, groups) ==
  /\ UNION { Range(groups[k]) : k \in DOMAIN groups } = all_nodes(G)
  /\ SumLen(groups) = Len(G.nodes)

\* C22: for every graph group_nodes returns groups that partition the node
\* set (every node in exactly one group, once), and a node that is not
\* singly chained forms a group of its own.
C22_GroupsPartition ==
  pm.pc \in {"grouped", "raised"} /\ ~ Raised(ret.value) =>
    /\ pm.pc = "grouped"
    /\ Partitions(ret.graph, pm.groups)
    /\ \A k \in DOMAIN pm.groups : \A n \in Range(pm.groups[k]) :
         ~ is_singly_chained(ret.graph, n) => pm.groups[k] = << n >>

\* what holds of the calls that return
C22_ReturnedGroups ==
  pm.pc = "grouped" =>
    /\ Partitions(ret.graph, pm.groups)
    /\ \A k \in DOMAIN pm.groups : \A n \in Range(pm.groups[k]) :
         ~ is_singly_chained(ret.graph, n) => pm.groups[k] = << n >>

\* ------------------------------------------------------------------------
\* PowerModel.py: autosearch (AutoSpec)
\* ------------------------------------------------------------------------

\* the step of Phase 3 that compares the last candidate of a tile and
\* commits one of the candidates
PickStep ==
  /\ pm.pc = "autosearch" /\ pm.phase = "p3_try" /\ pm.step = "compare"
  /\ pm.option = Len(pm.options)
  /\ pm'.pc = "autosearch" /\ pm'.step = "calc"

\* C23: in Phase 3, for every tile whose nodes differ in voltage and every
\* assignment of positive ED products to its candidate voltages, the voltage
\* committed for the tile is a candidate whose ED product is within 1% of
\* the best one (current_results becomes the results of the committed
\* candidate).
C23_Phase3PicksBest ==
  [][ PickStep =>
        /\ \A n \in Range(tile_groups(g)[pm.tile]) :
             pm'.node_setting[n] \in Range(pm.options)
        /\ \A i \in DOMAIN pm.tried :
             100 * Product(pm'.current_results) >= 99 * Product(pm.tried[i].results)
    ]_vars

\* what the loop does: it commits the last candidate tried, which is the
\* highest candidate voltage
C23_Phase3PicksLast ==
  [][ PickStep =>
        \A n \in Range(tile_groups(g)[pm.tile]) :
          pm'.node_setting[n] = pm.options[Len(pm.options)]
    ]_vars

SameTile(n1, n2) == stripped_name(n1) = stripped_name(n2)

\* the final node map this call of autosearch has written
FinalNodes ==
  json_load(IF pm.prioritize_energy THEN pm.files.final_eeff_nodes
                                    ELSE pm.files.final_nodes)

\* the Phase 2 node map of this kind of search
PreNodes ==
  json_load(IF pm.prioritize_energy THEN pm.files.pre_eeff_nodes
                                    ELSE pm.files.pre_nodes)

\* C24: when autosearch has finished Phase 3, any two nodes of one tile (a
\* tile node and its _byp and _bypalt nodes) have the same voltage, in the
\* graph and in the final node map written to disk.
C24_TileUniform ==
  pm.pc = "done" =>
    \A n1 \in all_nodes(g) : \A n2 \in all_nodes(g) :
      SameTile(n1, n2) =>
        pm.V[n1] = pm.V[n2] /\ FinalNodes[n1] = FinalNodes[n2]

\* Phase 2 had left the two nodes of a tile at different voltages, and
\* Phase 3 has made them equal
C24_Witness ==
  /\ pm.pc = "done"
  /\ PreNodes["x0_y1"] # PreNodes["x0_y1_byp"]
  /\ PreNodes["x0_y0"] # PreNodes["x0_y0_byp"]
  /\ pm.V["x0_y1"] = pm.V["x0_y1_byp"]
  /\ pm.V["x0_y0"] = pm.V["x0_y0_byp"]
  /\ pm.V["x0_y0"] # pm.V["x0_y1"]

\* C25: after the performance-first Phase 2, perf_ratio x eeff_ratio of the
\* accepted assignment, relative to the all-nominal baseline, is at least
\* 1.0, whatever the trial measurements were.
C25_Phase2NoWorseThanNominal ==
  pm.pc = "autosearch" /\ pm.phase = "p2_final" /\ ~ pm.prioritize_energy =>
    Product(pm.current_results) >= 100 * 100

\* C26: autosearch( skip_search = True ) after a full autosearch of the
\* same graph reads the Phase 2 node map that search has written and ends
\* with the same voltage for every node, in the graph and in the final node
\* map.
C26_SkipSearchSameFinal ==
  pm.skip_search =>
    /\ pm.pc \in {"autosearch", "done"}
    /\ pm.phase = "p3_start" => pm.node_setting = PreNodes
    /\ pm.pc = "done" => pm.V = pm.full_final /\ FinalNodes = pm.full_final

\* the second call has finished and the node map it started from has nodes
\* at more than one voltage
C26_Witness ==
  /\ pm.skip_search /\ pm.pc = "done"
  /\ PreNodes["x0_y1"] # PreNodes["x0_y1_byp"]
  /\ pm.V # PreNodes

\* C27: the numbering of the groups of group_nodes is the same for every
\* order in which an unordered set may be iterated.
C27_NumberingFixed ==
  pm.pc = "autosearch" =>
    \A grouped \in group_nodes(g) : grouped.groups = pm.groups

\* C28: dump_vf_json followed by configure_json gives back the DVFS mode of
\* every tile whose node is at exactly 0.61, 0.90 or 1.23 V.
C28_DvfsRoundTrip ==
  pm.reread # << >> =>
    /\ pm.reread[1].raised = ""
    /\ \A i \in DOMAIN pm.reread[1].V :
         pm.reread[1].V[i].V = pm.V[pm.reread[1].V[i].tile]

ValidPairs ==
  { << V_slow, T_slow >>, << V_nominal, T_nominal >>, << V_fast, T_fast >> }

\* C29: set_V_node( n, V ) with V one of 0.61, 0.90, 1.23 sets n.V and n.T
\* to the matching pair and any other V is an error that ends the call; at
\* every simulator run started by autosearch every node's (V, T) is one of
\* (0.61, 3.00), (0.90, 1.00), (1.23, 0.66).
C29_ValidPairs ==
  /\ pm.set_call # << >> =>
       IF pm.set_call[2] \in Voltages
       THEN /\ pm.pc = "built"
            /\ << pm.V[pm.set_call[1]], T[pm.set_call[1]] >> \in ValidPairs
            /\ pm.V[pm.set_call[1]] = pm.set_call[2]
       ELSE pm.pc = "raised" /\ pm.raised = "AssertionError"
  /\ pm.pc = "autosearch" /\ pm.step \in {"calc", "run"} =>
       \A n \in all_nodes(g) : << pm.V[n], T[n] >> \in ValidPairs

\* a run of autosearch has started with a node at each of the three pairs
C29_Witness ==
  /\ pm.pc = "autosearch" /\ pm.step = "run" /\ sims[1].pc = "tick"
  /\ \A pair \in ValidPairs : \E n \in all_nodes(g) : << pm.V[n], T[n] >> = pair

\* C30: every compare() of autosearch reads the throughput and latency of a
\* calc_performance() that ran after the last change of a node's V or T,
\* on a simulator that reset() had put to token counters 1 and global time
\* 0 when the run started.
C30_FreshMeasurement ==
  /\ ~ pm.stale
  /\ pm.pc = "autosearch" /\ pm.step = "compare" =>
       pm.perf_V = pm.V /\ pm.perf_T = T /\ pm.perf = sims[1].result
  /\ pm.pc = "autosearch" /\ pm.step = "run" /\ JustReset(sims[1]) =>
       NodesReset(sims[1]) /\ pm.run_V = pm.V /\ pm.run_T = T

\* the last compare() of Phase 2 is about to read the run made after the
\* last group was set back to sprint
C30_Witness ==
  /\ pm.pc = "autosearch" /\ pm.phase = "p2_final" /\ pm.step = "compare"
  /\ \A k \in DOMAIN pm.setting : pm.setting[k] = "s"
  /\ sims[1].run_counter > 2 * Len(pm.groups)

\* ------------------------------------------------------------------------
\* Frame of the simulator and of autosearch (AutoSpec)
\* ------------------------------------------------------------------------

\* a step of the simulator: reset() and the start of run(), a pop, a tick,
\* the return
SimulatorStep == sims' # sims

\* C31: a simulator run (reset, run, calc_performance) changes no node's V
\* or T, and neither the simulator nor autosearch changes the node set, the
\* adjacency mappings or the recurrence edges of the graph: autosearch
\* changes nothing of the graph but node V and T.
C31_Frame ==
  [][ /\ g' = g
      /\ SimulatorStep => T' = T /\ pm'.V = pm.V
    ]_vars

\* a run of autosearch is under way on nodes that were set to other modes
\* after earlier runs
C31_Witness ==
  /\ pm.pc = "autosearch" /\ sims[1].pc = "tick" /\ sims[1].run_counter >= 2
  /\ \E n \in all_nodes(g) : T[n] = T_slow
  /\ \E n \in all_nodes(g) : T[n] = T_fast

\* ------------------------------------------------------------------------
\* Firing (Spec)
\* ------------------------------------------------------------------------

\* the tails of the real (shadow) input queues of node n
Tails(s, n, shadow) ==
  LET q == IF shadow THEN s.sim_nodes[n].shadow_queues ELSE s.sim_nodes[n].queues
  IN  { peek(q[k]) : k \in DOMAIN q }

\* C32: whenever a node with predecessors fires, from push or from the
\* refire in tick, every one of its input queues (the shadow queues in push,
\* the real queues in tick) holds a live token at its tail and the fired
\* value is the maximum of those tails; push fires only when the queue
\* pushed into was empty before the push (its length is 1 after it).
C32_FireOnLiveTails ==
  \A i \in Instances : \A f \in sims[i].fires :
    LET s     == sims[i]
        tails == Tails(s, f.node, f.by = "fire_push")
    IN  /\ get_srcs(g, f.node) # {}
        /\ f.by \in {"fire_push", "fire_tick"}
        /\ 0 \notin tails
        /\ f.value = SetMax(tails)
        /\ f.by = "fire_push" =>
             \E p \in s.pushes :
               /\ p.dst = f.node
               /\ Len(s.sim_nodes[f.node].shadow_queues[p.src]) = 1

\* a node with two predecessors fired from push on tails that differ
C32_Witness ==
  \E i \in Instances : \E f \in sims[i].fires :
    /\ f.by = "fire_push"
    /\ Cardinality(Tails(sims[i], f.node, TRUE)) = 2

\* ------------------------------------------------------------------------
\* ready (Spec)
\* ------------------------------------------------------------------------

\* C33: ready( src ) returns false exactly when the real queue for src has
\* length 2, or has length 1 while pipewait of the node is set and
\* pipelining is disabled, and true in every other state.  (ready is an
\* operator on the state: it has no effect.)
C33_Ready ==
  \A i \in Instances : \A e \in DOMAIN sims[i].wires_fanout :
    LET node == sims[i].sim_nodes[e[2]]
        n    == Len(node.queues[e[1]])
    IN  ready(sims[i], e[2], e[1])
          = ~ (n = 2 \/ (n = 1 /\ node.pipewait /\ ~ pipeline))

\* a queue of one token at a node with pipewait set, not ready, beside a
\* queue that is ready
C33_Witness ==
  \E i \in Instances : \E e1, e2 \in DOMAIN sims[i].wires_fanout :
    LET s == sims[i]
    IN  /\ Len(s.sim_nodes[e1[2]].queues[e1[1]]) = 1
        /\ s.sim_nodes[e1[2]].pipewait /\ ~ ready(s, e1[2], e1[1])
        /\ ready(s, e2[2], e2[1])

\* ------------------------------------------------------------------------
\* Live-in production (Spec)
\* ------------------------------------------------------------------------

\* the outgoing shadow tokens of node n all read False
ShadowUnset(s, n) ==
  \A e \in DOMAIN s.shadow_fanout : e[1] = n => s.shadow_fanout[e].value = 0

\* the simulator at the point of tick where a live-in looks at its shadow
\* tokens: after the loop over wires_fanout (a live-in has no input queue
\* and no live_out_token to handle)
AtProduce(s, n) == Drain(s, n, get_dsts(g, n))

\* C34: a live-in emits in a tick if and only if all its outgoing shadow
\* tokens are un-set at that point; an emission puts the value token_counter
\* on every outgoing shadow wire and then increments token_counter by
\* exactly one (so the values emitted after a reset are 1, 2, 3, ...); the
\* token_counter of every other node is not changed by a tick and is 1.
C34_LiveInEmits ==
  [][ \A i \in Instances :
        (sims[i].pc = "tick" /\ sims'[i] # sims[i]) =>
          LET s  == sims[i]
              n  == s.name
              tc == s.sim_nodes[n].token_counter
          IN  /\ \A m \in DOMAIN s.sim_nodes :
                   (m # n \/ ~ live_in(g, n)) =>
                     /\ sims'[i].sim_nodes[m].token_counter = s.sim_nodes[m].token_counter
                     /\ ~ live_in(g, m) => s.sim_nodes[m].token_counter = 1
              /\ live_in(g, n) =>
                   IF ShadowUnset(AtProduce(s, n), n)
                   THEN /\ sims'[i].sim_nodes[n].token_counter = tc + 1
                        /\ \A e \in DOMAIN s.shadow_fanout :
                             e[1] = n =>
                               /\ sims'[i].shadow_fanout[e].value = tc
                               /\ sims'[i].shadow_fanout[e].guard_set
                               /\ sims'[i].shadow_fanout[e].guard_begin = s.sim_nodes[n].time
                               /\ sims'[i].shadow_fanout[e].guard_span = T[n]
                   ELSE /\ sims'[i].sim_nodes[n].token_counter = tc
                        /\ \A e \in DOMAIN s.shadow_fanout :
                             e[1] = n =>
                               sims'[i].shadow_fanout[e] = AtProduce(s, n).shadow_fanout[e]
    ]_vars

\* a live-in has emitted 1, 2 and 3 and its third token is on every outgoing
\* shadow wire; another tick of it would not emit
C34_Witness ==
  \E i \in Instances : \E n \in DOMAIN sims[i].sim_nodes :
    /\ live_in(g, n)
    /\ sims[i].sim_nodes[n].token_counter = 4
    /\ \A e \in DOMAIN sims[i].shadow_fanout :
         e[1] = n => sims[i].shadow_fanout[e].value = 3

\* ------------------------------------------------------------------------
\* Phase 2, performance first (AutoSpec)
\* ------------------------------------------------------------------------

\* the voltages of the nodes are those of setting
AtSetting(P) ==
  \A k \in DOMAIN P.groups : \A n \in Range(P.groups[k]) :
    P.V[n] = set_V_group(P.groups[k], P.setting[k])[n]

\* the loop of Phase 2 has gone on from group k: to the trial of 'r' for
\* group k + 1, or to the end of the loop
NextGroup(P, Q, k) ==
  /\ \A j \in 1..k : Q.setting[j] = IF j = k THEN Q.setting[k] ELSE P.setting[j]
  /\ IF k < Len(P.groups)
     THEN Q.phase = "p2_r" /\ Q.k = k + 1 /\ Q.setting[k + 1] = "r"
     ELSE Q.phase = "p2_final" /\ Q.setting = [ P.setting EXCEPT ![k] = Q.setting[k] ]

C36_RecurrenceEdgesAreEdges ==
  \A i \in 1..Len(g.recurrence_edges) :
    LET e == g.recurrence_edges[i]
    IN  /\ e[2] \in get_dsts(g, e[1])
        /\ e[1] \in get_srcs(g, e[2])
        /\ \A j \in 1..Len(g.recurrence_edges) : g.recurrence_edges[j] = e => i = j

\* ------------------------------------------------------------------------
\* Overflow of the bounded queues (Spec)
\* ------------------------------------------------------------------------

\* C37: push is never applied to a shadow queue that already holds 2
\* tokens, in any run of a Simulator (the first or a later one): no token
\* is discarded by an appendleft on a full deque.
C37_NoOverflow ==
  [][ \A i \in Instances : \A p \in sims'[i].pushes :
        (sims[i].pc = "tick" /\ sims'[i] # sims[i]) =>
          Len(sims[i].sim_nodes[p.dst].shadow_queues[p.src]) < maxlen
    ]_vars

\* in a run after the first a token is pushed into a shadow queue that
\* holds one token already
C37_Witness ==
  \E i \in Instances : \E p \in sims[i].pushes :
    /\ sims[i].run_counter >= 2
    /\ Len(sims[i].sim_nodes[p.dst].shadow_queues[p.src]) = maxlen

\* ------------------------------------------------------------------------
\* Tokens overwritten on a wire (Spec)
\* ------------------------------------------------------------------------

\* C38: no fire and no seed of reset is overwritten before it is delivered:
\* fire never sets an outgoing shadow wire whose token (a fired token, a
\* live-in token or the seed of reset on a recurrence edge or on the fanout
\* of a phi node) has not yet been pushed into the queue of the consumer.
\* (Live-in production sets the wires only when every one of them reads
\* False.)
C38_NoOverwrite ==
  \A i \in Instances : \A f \in sims[i].fires : f.lost = {}

\* within the first run of a simulator the tokens overwritten are seeds of
\* reset
C38_FirstRunSeedsOnly ==
  \A i \in Instances : \A f \in sims[i].fires : \A l \in f.lost :
    sims[i].run_counter = 0 => l.by = "reset"

\* ------------------------------------------------------------------------
\* Tokens through a chain
\* ------------------------------------------------------------------------

\* G is a chain from one live-in to one live-out
LinearChain(G) ==
  /\ Cardinality(get_liveins(G)) = 1 /\ Cardinality(get_liveouts(G)) = 1
  /\ G.recurrence_edges = << >>
  /\ \A n \in all_nodes(G) :
       Cardinality(get_srcs(G, n)) <= 1 /\ Cardinality(get_dsts(G, n)) <= 1

\* the values sunk are 1, 2, 3, ...
Consecutive(sunk) == \A j \in 1..Len(sunk) : sunk[j].value = j

\* C39: in a chain from one live-in to one live-out, whatever the modes of
\* the nodes, the live-out sinks the values 1, 2, 3, ... in this order: no
\* token of the live-in is lost, duplicated or reordered.
C39_ChainInOrder ==
  \A i \in Instances : LinearChain(g) => Consecutive(sims[i].sunk)

\* the same within the first run of a simulator
C39_FirstRun ==
  \A i \in Instances :
    LinearChain(g) /\ sims[i].run_counter = 0 => Consecutive(sims[i].sunk)

\* ------------------------------------------------------------------------
\* The live_out_token over reset (Spec)
\* ------------------------------------------------------------------------

\* C40: after reset() no token of an earlier run remains: the live_out_token
\* of every live-out node is cleared (no value, guard not set), so that a
\* token fired in an earlier run is not sunk in a later one.
C40_ResetClearsLiveOutToken ==
  \A i \in Instances :
    JustReset(sims[i]) =>
      \A n \in DOMAIN sims[i].sim_nodes :
        /\ sims[i].sim_nodes[n].live_out_token.value = 0
        /\ ~ sims[i].sim_nodes[n].live_out_token.guard_set

====
